---- MODULE Spec2Model ----
(***************************************************************************)
(* A model of ethercat_hardware/src/wg0x.cpp (WG0X EtherCAT motor          *)
(* controller driver): the per-cycle command/status codec, the two locks   *)
(* shared by the realtime and the diagnostic contexts, and the mailbox     *)
(* transaction engine talking to the device over a lossy transport.        *)
(*                                                                         *)
(* Four specifications share the definitions below:                        *)
(*   SpecCycle  the realtime cycle (packCommand / unpackState) alone       *)
(*   SpecDrops  the realtime cycle fed long runs of repeated frames        *)
(*   Spec       the threads of one device and their two mutexes            *)
(*   SpecMbx    one mailbox transaction against device and transport       *)
(***************************************************************************)
EXTENDS Integers, Sequences, FiniteSets, TLC

(***************************************************************************)
(* Bounds of the model                                                     *)
(***************************************************************************)
\* drops_ is an ever growing statistic: frames that would count a drop are
\* fed only while drops_ < MaxDrops
MaxDrops == 12
\* the same bound where the cycle is fed its full range of frames
MaxCycleDrops == 2
\* zero offsets the controller sets, one after the other: 1..MaxOffset
MaxOffset == 1
\* sizeof(WG0XCommand) of the device at hand (command_size_); the fields
\* packCommand sets sit in the first six bytes, the checksum in the last
command_size_ == 8

\* the error counters are ever growing statistics: pthread_mutex_lock and
\* the mailbox calls of collectDiagnostics fail only while
\* lock_errors_ + read_errors_ + write_errors_ is below MaxFaults
MaxFaults == 1
\* mailbox commands are built only while mbx_counter < MaxCalls
MaxCalls == 1
\* the history counters of a mailbox call stop at HistMax
HistMax == 2
\* the frame builders are given lengths 0..MaxLen
MaxLen == 2
\* frames are fed while sample_timestamp_ is below MaxSeconds seconds
MaxSeconds == 4400
\* lifetime totals of WG0XDiagnostics are followed up to MaxTotal events
MaxTotal == 260
MaxBusy == 21

(***************************************************************************)
(* Program constants                                                       *)
(***************************************************************************)
\* clearReadMailbox: sends of the flush frame
MAX_DROPS == 15
\* writeMailboxInternal: sends of the write frame
WRITE_TRIES == 10
\* readMailboxInternal: read attempts, and sends of one attempt
MAX_TRIES == 10
MAX_DROPPED == 10
\* verifyState: more than this many consecutive drops is a failure
MAX_CONSECUTIVE_DROPS == 10
\* verifyState: a timestamp change above this (usec) is a jump
TIMESTAMP_JUMP_USEC == 10000000
\* seed of computeChecksum (0x42)
CHECKSUM_SEED == 66

\* MBX_SIZE and MBX_DATA_SIZE = MBX_SIZE - sizeof(WG0XMbxHdr) - 1, the
\* limits WG0XMbxHdr::build checks a length against
MBX_SIZE == 512
MBX_DATA_SIZE == 505
USEC_PER_SEC == 1000000
NSEC_PER_SEC == 1000000000
\* a uint32_t is held as <<high half, low half>> of 16 bits each
Pow2_16 == 65536

(***************************************************************************)
(* Checksum codec                                                          *)
(***************************************************************************)
\* in &= 0xff; in = (in >> 1) | (in << 7); in &= 0xff
rotateRight8(in) ==
  LET b == in % 256
  IN  ((b \div 2) + (b % 2) * 128) % 256

\* bitwise exclusive or of two bytes
RECURSIVE Xor8(_, _)
Xor8(a, b) ==
  IF a = 0 THEN b
  ELSE IF b = 0 THEN a
  ELSE ((a + b) % 2) + 2 * Xor8(a \div 2, b \div 2)

\* one round of the loop of computeChecksum
ChecksumStep(checksum, byte) == Xor8(rotateRight8(checksum), byte) % 256

\* the loop over d[from] .. d[to], worked through in halves
RECURSIVE ChecksumFrom(_, _, _, _)
ChecksumFrom(checksum, d, from, to) ==
  IF from > to THEN checksum
  ELSE IF from = to THEN ChecksumStep(checksum, d[from])
  ELSE LET mid == (from + to) \div 2
           first_half == ChecksumFrom(checksum, d, from, mid)
       IN  IF first_half < 256
           THEN ChecksumFrom(first_half, d, mid + 1, to)
           ELSE first_half

computeChecksum(d) == ChecksumFrom(CHECKSUM_SEED, d, 1, Len(d))

(***************************************************************************)
(* Mode bits of WG0XCommand.mode_ / WG0XStatus.mode_, as sets of bit names *)
(* (MODE_OFF is the empty set) and as the byte the device sees.            *)
(***************************************************************************)
MODE_OFF == {}
ModeBitValue(b) ==
  CASE b = "ENABLE"         -> 1
    [] b = "CURRENT"        -> 2
    [] b = "UNDERVOLTAGE"   -> 4
    [] b = "SAFETY_RESET"   -> 16
    [] b = "SAFETY_LOCKOUT" -> 32
    [] b = "RESET"          -> 128

RECURSIVE ModeByte(_)
ModeByte(m) ==
  IF m = {} THEN 0
  ELSE LET b == CHOOSE x \in m : TRUE
       IN  ModeBitValue(b) + ModeByte(m \ {b})

(***************************************************************************)
(* State                                                                   *)
(***************************************************************************)
Threads == {"rt", "collect", "publish", "user"}
NoOwner == "none"

VARIABLES
  wg,                        \* fields of the WG0X object used by the cycle
  zero_offset,               \* actuator_.state_.zero_offset_ (set by controller)
  halted_,                   \* actuator_.state_.halted_
  last,                      \* the call completed last: arguments, result,
                             \* and the buffer packCommand filled for it
  mailbox_lock_,             \* owner of mailbox_lock_, or NoOwner
  wg0x_diagnostics_lock_,    \* owner of wg0x_diagnostics_lock_, or NoOwner
  wg0x_collect_diagnostics_, \* record shared by the two contexts
  wg0x_publish_diagnostics_, \* the publisher's copy
  mailbox_diagnostics_,      \* error and retry counters of the mailbox
  mailbox_publish_diagnostics_, \* the publisher's copy
  dev,                       \* the device at the other end of the transport
  mbx_counter,               \* sh_->get_mbx_counter(): commands built so far
  pc,                        \* position of every thread
  loc                        \* locals of every thread

\* what the mailbox side owns
mbxVars == <<mailbox_lock_, mailbox_diagnostics_,
             mailbox_publish_diagnostics_, dev, mbx_counter>>

\* what the realtime cycle owns
cycleVars == <<wg, zero_offset, halted_, last>>

\* the lock of the shared diagnostics record, the record and its copy
diagVars == <<wg0x_diagnostics_lock_, wg0x_collect_diagnostics_,
              wg0x_publish_diagnostics_>>

vars == <<wg, zero_offset, halted_, last, mailbox_lock_,
          wg0x_diagnostics_lock_, wg0x_collect_diagnostics_,
          wg0x_publish_diagnostics_, mailbox_diagnostics_,
          mailbox_publish_diagnostics_, dev, mbx_counter, pc, loc>>

(***************************************************************************)
(* Initial state: WG0X::WG0X, WG0XDiagnostics::WG0XDiagnostics,            *)
(* MbxDiagnostics::MbxDiagnostics                                          *)
(***************************************************************************)
\* faulty variant: the two timestamps start at a value no frame has
FirstTimestamp_Unseen == <<Pow2_16 - 1, Pow2_16 - 1>>

\* last_timestamp_ = 0; last_last_timestamp_ = 0;
FirstTimestamp == <<0, 0>>

InitWG0X ==
  [ too_many_dropped_packets_     |-> FALSE,
    status_checksum_error_        |-> FALSE,
    timestamp_jump_detected_      |-> FALSE,
    fpga_internal_reset_detected_ |-> FALSE,
    cached_zero_offset_           |-> 0,
    calibration_status_           |-> "NO_CALIBRATION",
    app_ram_status_               |-> "APP_RAM_PRESENT",
    max_current_                  |-> 2,
    last_timestamp_               |-> FirstTimestamp,
    last_last_timestamp_          |-> FirstTimestamp,
    drops_                        |-> 0,
    consecutive_drops_            |-> 0,
    max_consecutive_drops_        |-> 0,
    in_lockout_                   |-> FALSE,
    resetting_                    |-> FALSE,
    has_error_                    |-> FALSE,
    sample_timestamp_             |-> [sec |-> 0, nsec |-> 0] ]

\* WG0XSafetyDisableCounters of a WG0XDiagnosticsInfo whose six 8 bit counters
\* all read n (memset 0 at construction)
SafetyDisableCounters(n) ==
  [ undervoltage_count_     |-> n,
    over_current_count_     |-> n,
    board_over_temp_count_  |-> n,
    bridge_over_temp_count_ |-> n,
    operate_disable_count_  |-> n,
    watchdog_disable_count_ |-> n ]

InitWG0XDiagnostics ==
  [ first_                 |-> TRUE,
    valid_                 |-> FALSE,
    safety_disable_total_  |-> 0,
    undervoltage_total_    |-> 0,
    over_current_total_    |-> 0,
    board_over_temp_total_ |-> 0,
    bridge_over_temp_total_ |-> 0,
    operate_disable_total_ |-> 0,
    watchdog_disable_total_ |-> 0,
    lock_errors_           |-> 0,
    checksum_errors_       |-> 0,
    zero_offset_           |-> 0,
    cached_zero_offset_    |-> 0,
    safety_disable_status_ |-> [safety_disable_count_ |-> 0,
                                safety_disable_status_hold_ |-> {}],
    diagnostics_info_      |-> SafetyDisableCounters(0) ]

\* MbxDiagnostics::MbxDiagnostics
InitMbxDiagnostics ==
  [ write_errors_ |-> 0, read_errors_ |-> 0, lock_errors_ |-> 0,
    retries_ |-> 0, retry_errors_ |-> 0 ]

NoOp == [op |-> "none"]

(***************************************************************************)
(* Cycle codec: packCommand                                                *)
(***************************************************************************)
\* faulty variant: a reset request clears the FPGA reset flag as well
clearErrorFlags_ClearsFpga(w) ==
  [w EXCEPT !.has_error_ = FALSE,
            !.too_many_dropped_packets_ = FALSE,
            !.status_checksum_error_ = FALSE,
            !.timestamp_jump_detected_ = FALSE,
            !.fpga_internal_reset_detected_ = FALSE]

clearErrorFlags(w) ==
  [w EXCEPT !.has_error_ = FALSE,
            !.too_many_dropped_packets_ = FALSE,
            !.status_checksum_error_ = FALSE,
            !.timestamp_jump_detected_ = FALSE]

\* faulty variant: the error latch is not looked at when the mode is packed
PackEnableBits_IgnoresLatch(enable, halt, has_error) ==
  IF enable /\ ~halt THEN {"ENABLE", "CURRENT"} ELSE MODE_OFF

\* c->mode_ = (cmd.enable_ && !halt && !has_error_) ? (ENABLE|CURRENT) : OFF
PackEnableBits(enable, halt, has_error) ==
  IF enable /\ ~halt /\ ~has_error THEN {"ENABLE", "CURRENT"} ELSE MODE_OFF

\* c->mode_ |= (reset ? MODE_SAFETY_RESET : 0)
PackMode(enable, halt, has_error, reset) ==
  PackEnableBits(enable, halt, has_error)
    \cup (IF reset THEN {"SAFETY_RESET"} ELSE {})

\* effort to current (encoder_reduction_, motor_torque_constant_ and
\* nominal_current_scale_ taken as 1), truncated to +/- max_current_
ProgrammedCurrent(effort, halt, max_current) ==
  LET e == IF halt THEN 0 ELSE effort
  IN  IF e > max_current THEN max_current
      ELSE IF e < -max_current THEN -max_current ELSE e

\* memset(c, 0, command_size_), the fields, then the checksum over all but
\* the last byte, rotated, in the last byte
CommandBody(mode, digital_out, current) ==
  LET c16 == (current + 65536) % 65536
  IN  [i \in 1..(command_size_ - 1) |->
         CASE i = 1 -> ModeByte(mode)
           [] i = 2 -> digital_out % 256
           [] i = 5 -> c16 % 256
           [] i = 6 -> c16 \div 256
           [] OTHER -> 0]

\* faulty variant: the checksum is stored as computed, not rotated
CommandChecksum_NotRotated(body) == computeChecksum(body)

CommandChecksum(body) == rotateRight8(computeChecksum(body))

PackBuffer(mode, digital_out, current) ==
  LET body == CommandBody(mode, digital_out, current)
  IN  Append(body, CommandChecksum(body))

\* the mode bits held by a packed command buffer
BufferMode(b) == {m \in {"ENABLE", "CURRENT", "UNDERVOLTAGE", "SAFETY_RESET",
                         "SAFETY_LOCKOUT", "RESET"} :
                    (b[1] \div ModeBitValue(m)) % 2 = 1}

\* faulty variant: the try-lock goes through whoever holds the lock
tryLockWG0XDiagnostics_Always == TRUE

\* pthread_mutex_trylock(&wg0x_diagnostics_lock_) == 0
tryLockWG0XDiagnostics == wg0x_diagnostics_lock_ = NoOwner

\* the part of packCommand after the hand-off: pack and return
PackAndReturn(w, a, busy) ==
  last' = [op |-> "packCommand", halt |-> a.halt, reset |-> a.reset,
           enable |-> a.enable, busy |-> busy, pre_error |-> a.pre_error,
           buffer |-> PackBuffer(
                        PackMode(a.enable, a.halt, w.has_error_, a.reset),
                        a.digital_out,
                        ProgrammedCurrent(a.effort, a.halt, w.max_current_))]

\* packCommand up to the hand-off of a changed zero offset; when the lock
\* was taken the call goes on in pk_finish, else it packs and returns here
pk_call(halt, reset, enable, effort, digital_out) ==
  /\ pc["rt"] = "idle"
  /\ LET w1 == IF reset THEN clearErrorFlags(wg) ELSE wg
         w2 == [w1 EXCEPT !.resetting_ = reset]
         a  == [halt |-> halt, reset |-> reset, enable |-> enable,
                effort |-> effort, digital_out |-> digital_out,
                pre_error |-> wg.has_error_]
         changed == zero_offset # w2.cached_zero_offset_
     IN  IF changed /\ tryLockWG0XDiagnostics
         THEN /\ wg0x_diagnostics_lock_' = "rt"
              /\ wg' = [w2 EXCEPT !.cached_zero_offset_ = zero_offset,
                                  !.calibration_status_ = "CONTROLLER_CALIBRATION"]
              /\ wg0x_collect_diagnostics_' =
                   [wg0x_collect_diagnostics_ EXCEPT !.zero_offset_ = zero_offset]
              /\ pc' = [pc EXCEPT !["rt"] = "pk_locked"]
              /\ loc' = [loc EXCEPT !["rt"] = a]
              /\ UNCHANGED last
         ELSE /\ wg' = w2
              /\ PackAndReturn(w2, a, changed)
              /\ UNCHANGED <<wg0x_diagnostics_lock_, wg0x_collect_diagnostics_,
                             pc, loc>>
  /\ UNCHANGED <<zero_offset, halted_, wg0x_publish_diagnostics_, mbxVars>>

\* unlockWG0XDiagnostics(), then the rest of packCommand
pk_finish ==
  /\ pc["rt"] = "pk_locked"
  /\ wg0x_diagnostics_lock_' = NoOwner
  /\ PackAndReturn(wg, loc["rt"], FALSE)
  /\ pc' = [pc EXCEPT !["rt"] = "idle"]
  /\ loc' = [loc EXCEPT !["rt"] = NoOp]
  /\ UNCHANGED <<wg, zero_offset, halted_, wg0x_collect_diagnostics_,
                 wg0x_publish_diagnostics_, mbxVars>>

\* the controller sets a new calibration offset (actuator_.state_.zero_offset_)
SetZeroOffset(z) ==
  /\ z # zero_offset
  /\ zero_offset' = z
  /\ UNCHANGED <<wg, halted_, last, wg0x_diagnostics_lock_,
                 wg0x_collect_diagnostics_, wg0x_publish_diagnostics_,
                 mbxVars, pc, loc>>

(***************************************************************************)
(* Frame builders of the mailbox: WG0XMbxHdr::build, WG0XMbxCmd::build     *)
(***************************************************************************)
MbxCmdTypes == {"LOCAL_BUS_READ", "LOCAL_BUS_WRITE"}

\* faulty variant: a read is held to the limit of a write
HdrLengthOk_ReadAsWrite(length, type) == length <= MBX_DATA_SIZE

\* the length check of WG0XMbxHdr::build
HdrLengthOk(length, type) ==
  IF type = "LOCAL_BUS_WRITE" THEN length <= MBX_DATA_SIZE
  ELSE length <= MBX_SIZE - 1

\* address_ (16 bits), length_ = length - 1 (12 bits), write_nread_ (top
\* bit of the same word), seqnum_ (8 bits): the five bytes before checksum_
HdrBody(address, length, type, seqnum) ==
  LET a == address % 65536
      n == (length - 1 + 4096) % 4096
      w == IF type = "LOCAL_BUS_WRITE" THEN 128 ELSE 0
  IN  <<a % 256, a \div 256, n % 256, (n \div 256) + w, seqnum % 256>>

\* checksum_ = rotateRight8(computeChecksum(this, sizeof(*this) - 1))
HdrChecksum(body) == rotateRight8(computeChecksum(body))

HdrFrame(address, length, type, seqnum) ==
  LET body == HdrBody(address, length, type, seqnum)
  IN  Append(body, HdrChecksum(body))

\* faulty variant: data_ is zeroed whether the caller gave data or not
CmdData_Zeroed(length, has_data, data) ==
  LET d == [i \in 1..length |-> 0]
  IN  Append(d, rotateRight8(computeChecksum(d)))

\* data_ of WG0XMbxCmd::build: the caller's bytes or zeros, then
\* data_[length] = rotateRight8(computeChecksum(data_, length))
CmdData(length, has_data, data) ==
  LET d == [i \in 1..length |-> IF has_data THEN data[i] ELSE 0]
  IN  Append(d, rotateRight8(computeChecksum(d)))

\* length_ as the header holds it: 12 bits over bytes 3 and 4
HdrLengthField(hdr) == hdr[3] + 256 * (hdr[4] % 16)

\* pad_, three bits of byte 4 between length_ and write_nread_, which
\* WG0XMbxHdr::build does not assign
HdrPad(hdr) == (hdr[4] \div 16) % 8

\* the header after the five assignments of WG0XMbxHdr::build to an object
\* that held `before`: pad_ keeps its bits and checksum_ covers them
HdrBuilt(before, address, length, type, seqnum) ==
  LET body == HdrBody(address, length, type, seqnum)
      kept == [body EXCEPT ![4] = @ + 16 * HdrPad(before)]
  IN  Append(kept, HdrChecksum(kept))

\* WG0XMbxHdr::build on a header object that held `before`
hdr_build(before, address, length, type, seqnum) ==
  /\ last' = IF HdrLengthOk(length, type)
             THEN [op |-> "WG0XMbxHdr::build", ok |-> TRUE, length |-> length,
                   type |-> type, before |-> before,
                   hdr |-> HdrBuilt(before, address, length, type, seqnum)]
             ELSE [op |-> "WG0XMbxHdr::build", ok |-> FALSE,
                   length |-> length, type |-> type, before |-> before,
                   hdr |-> before]
  /\ UNCHANGED <<wg, zero_offset, halted_, diagVars, mbxVars, pc, loc>>

\* WG0XMbxCmd::build on a command object that held `before` (hdr_ and the
\* first bytes of data_); after a build data holds the bytes it wrote
cmd_build(before, address, length, type, seqnum, has_data, data) ==
  /\ last' = IF HdrLengthOk(length, type)
             THEN [op |-> "WG0XMbxCmd::build", ok |-> TRUE, length |-> length,
                   type |-> type, has_data |-> has_data, before |-> before,
                   hdr |-> HdrBuilt(before.hdr, address, length, type, seqnum),
                   data |-> CmdData(length, has_data, data)]
             ELSE [op |-> "WG0XMbxCmd::build", ok |-> FALSE,
                   length |-> length, type |-> type, has_data |-> has_data,
                   before |-> before,
                   hdr |-> before.hdr, data |-> before.data]
  /\ UNCHANGED <<wg, zero_offset, halted_, diagVars, mbxVars, pc, loc>>

\* faulty variant: a header whose checksum folds to zero is taken for good
verifyChecksum_ZeroIsGood(hdr) == computeChecksum(hdr) = 0

\* return WG0X::computeChecksum(this, sizeof(*this)) != 0;
verifyChecksum(hdr) == computeChecksum(hdr) # 0

\* the header with the lowest bit of byte `flip` turned over (0: as it is)
FlipBit(hdr, flip) ==
  [i \in 1..Len(hdr) |->
     IF i = flip THEN (IF hdr[i] % 2 = 0 THEN hdr[i] + 1 ELSE hdr[i] - 1)
     ELSE hdr[i]]

\* WG0XMbxHdr::verifyChecksum on the header built last, as it is or with
\* one bit turned over on its way
hdr_verifyChecksum(flip) ==
  /\ last.op = "WG0XMbxHdr::build" /\ last.ok
  /\ LET hdr == FlipBit(last.hdr, flip)
     IN  last' = [op |-> "WG0XMbxHdr::verifyChecksum", hdr |-> hdr,
                  built |-> flip = 0, rv |-> verifyChecksum(hdr)]
  /\ UNCHANGED <<wg, zero_offset, halted_, diagVars, mbxVars, pc, loc>>

(***************************************************************************)
(* Cycle codec: unpackState / verifyState                                  *)
(***************************************************************************)
\* the uint32_t of a number below 2^31
U32(n) == <<n \div Pow2_16, n % Pow2_16>>

\* uint32_t subtraction, modulo 2^32
TimestampSub(a, b) ==
  LET lo == a[2] - b[2]
      borrow == IF lo < 0 THEN 1 ELSE 0
  IN  <<(a[1] - b[1] - borrow + 2 * Pow2_16) % Pow2_16,
        (lo + Pow2_16) % Pow2_16>>

\* a number wider than 32 bits, <<bits above 32, high half, low half>>,
\* passed as a uint32_t keeps its low 32 bits
ToU32(wide) == <<wide[2], wide[3]>>

\* int32_t(new_timestamp - old_timestamp)
timestampDiff(new_timestamp, old_timestamp) ==
  LET d == TimestampSub(new_timestamp, old_timestamp)
  IN  IF d[1] >= Pow2_16 \div 2 THEN (d[1] - Pow2_16) * Pow2_16 + d[2]
      ELSE d[1] * Pow2_16 + d[2]

\* ros::Duration(sec, nsec): nsec is brought into 0 .. 10^9 - 1
Duration(sec, nsec) ==
  [sec |-> sec + (nsec \div NSEC_PER_SEC), nsec |-> nsec % NSEC_PER_SEC]

\* faulty variant: the part of the difference below one second is lost
timediffToDuration_WholeSeconds(timediff_usec) ==
  Duration(timediff_usec \div USEC_PER_SEC, 0)

\* sec = timediff_usec / USEC_PER_SEC; nsec = (timediff_usec %
\* USEC_PER_SEC) * 1000, with the quotient truncated towards zero and the
\* remainder of the sign of timediff_usec, as C has them
timediffToDuration(timediff_usec) ==
  LET q == timediff_usec \div USEC_PER_SEC
      r == timediff_usec % USEC_PER_SEC
      up == timediff_usec < 0 /\ r # 0
      sec == IF up THEN q + 1 ELSE q
      usec == IF up THEN r - USEC_PER_SEC ELSE r
  IN  Duration(sec, usec * 1000)

\* ros::Duration::operator+=
DurationAdd(a, b) == Duration(a.sec + b.sec, a.nsec + b.nsec)

\* a > b on uint32_t
Gt32(a, b) == a[1] > b[1] \/ (a[1] = b[1] /\ a[2] > b[2])

\* faulty variant: only a timestamp ahead of the last one is a jump
timestamp_jump_ForwardOnly(timestamp, last_timestamp, amount) ==
  /\ Gt32(timestamp, last_timestamp)
  /\ Gt32(TimestampSub(timestamp, last_timestamp), U32(amount))

\* uint32_t timestamp_diff = (timestamp - last_timestamp);
\* return (timestamp_diff > amount);
timestamp_jump(timestamp, last_timestamp, amount) ==
  Gt32(TimestampSub(timestamp, last_timestamp), U32(amount))

\* faulty variant: a frame is compared with the last timestamp only
IsDrop_LastOnly(w, timestamp) == timestamp = w.last_timestamp_

\* this_status->timestamp_ == last_timestamp_ ||
\* this_status->timestamp_ == last_last_timestamp_
IsDrop(w, timestamp) ==
  timestamp = w.last_timestamp_ \/ timestamp = w.last_last_timestamp_

\* faulty variant: the drop limit is off by one
TooManyDrops_OffByOne(consecutive_drops) ==
  consecutive_drops >= MAX_CONSECUTIVE_DROPS

\* if (consecutive_drops_ > 10)
TooManyDrops(consecutive_drops) == consecutive_drops > MAX_CONSECUTIVE_DROPS

\* faulty variant: a device lockout is never a failure of the sample
LockoutFails_Never(in_lockout, resetting) == FALSE

\* faulty variant: a lockout fails the sample during a reset request too
LockoutFails_IgnoresReset(in_lockout, resetting) == in_lockout

\* if (in_lockout_ && !resetting_)
LockoutFails(in_lockout, resetting) == in_lockout /\ ~resetting

Max(a, b) == IF a > b THEN a ELSE b

\* drop counting, jump detection and the shift of the last two timestamps
CountDrops(w, timestamp) ==
  LET w1 == IF IsDrop(w, timestamp)
            THEN [w EXCEPT !.drops_ = @ + 1,
                           !.consecutive_drops_ = @ + 1,
                           !.max_consecutive_drops_ =
                              Max(@, w.consecutive_drops_ + 1)]
            ELSE [w EXCEPT !.consecutive_drops_ = 0]
      w2 == IF timestamp_jump(timestamp, w.last_timestamp_, TIMESTAMP_JUMP_USEC)
            THEN [w1 EXCEPT !.timestamp_jump_detected_ = TRUE]
            ELSE w1
  IN  [w2 EXCEPT !.last_last_timestamp_ = w.last_timestamp_,
                 !.last_timestamp_ = timestamp]

\* faulty variant: has_error_ follows the last sample instead of latching
LatchError_Follows(has_error, rv) == ~rv

\* has_error_ = is_error || has_error_
LatchError(has_error, rv) == (~rv) \/ has_error

\* verifyState: the new object state, the return value and the check that
\* decided it.  status is [timestamp_, mode_]; collab is what the attached
\* models answer in this call: "ok", "overheated" (motor heating model) or
\* "model_fail" (motor_model_->verify() false, asked only when enabled).
verifyState(w, status, collab) ==
  LET rv0 == collab # "overheated"
      w3  == CountDrops(w, status.timestamp_)
      lockout == "SAFETY_LOCKOUT" \in status.mode_
      is_enabled == "ENABLE" \in status.mode_
      w4  == [w3 EXCEPT !.in_lockout_ = lockout]
      r   == IF TooManyDrops(w3.consecutive_drops_)
             THEN [w |-> [w3 EXCEPT !.too_many_dropped_packets_ = TRUE],
                   rv |-> FALSE, why |-> "drops"]
             ELSE IF LockoutFails(lockout, w4.resetting_)
             THEN [w |-> w4, rv |-> FALSE, why |-> "lockout"]
             ELSE IF w4.fpga_internal_reset_detected_
             THEN [w |-> w4, rv |-> FALSE, why |-> "fpga_reset"]
             ELSE IF is_enabled /\ collab = "model_fail"
             THEN [w |-> w4, rv |-> FALSE, why |-> "model"]
             ELSE [w |-> w4, rv |-> rv0,
                   why |-> IF rv0 THEN "ok" ELSE "overheated"]
      he  == LatchError(r.w.has_error_, r.rv)
  IN  [w |-> [r.w EXCEPT !.has_error_ = he],
       rv |-> r.rv, why |-> r.why,
       halted |-> (he \/ status.mode_ = MODE_OFF)]

\* unpackState of one status frame: the time since the frame before it
\* (prev_buffer is the buffer of the cycle before, whose timestamp
\* verifyState kept in last_timestamp_) is added to sample_timestamp_; it
\* ends in verifyState, whose result it returns
unpackState(timestamp, mode, collab) ==
  /\ pc["rt"] = "idle"
  /\ LET timediff == timestampDiff(timestamp, wg.last_timestamp_)
         w0 == [wg EXCEPT !.sample_timestamp_ =
                            DurationAdd(@, timediffToDuration(timediff))]
         r == verifyState(w0, [timestamp_ |-> timestamp, mode_ |-> mode], collab)
     IN  /\ wg' = r.w
         /\ halted_' = r.halted
         /\ last' = [op |-> "unpackState", rv |-> r.rv, why |-> r.why,
                     drop |-> IsDrop(wg, timestamp),
                     jump |-> timestamp_jump(timestamp, wg.last_timestamp_,
                                             TIMESTAMP_JUMP_USEC),
                     lockout |-> "SAFETY_LOCKOUT" \in mode,
                     pre_error |-> wg.has_error_]
  /\ UNCHANGED <<zero_offset, wg0x_diagnostics_lock_,
                 wg0x_collect_diagnostics_, wg0x_publish_diagnostics_,
                 mbxVars, pc, loc>>

(***************************************************************************)
(* The device and the transport, as the driver's code takes them to be     *)
(***************************************************************************)
EcStates == {"INIT", "PREOP", "SAFEOP", "OP"}
Addresses ==
  {"SAFETY_STATUS", "DIAG_INFO", "APP_RAM", "SPI_BUFFER", "SPI_COMMAND"}
NoCmd == [kind |-> "none", address |-> "APP_RAM", length |-> 0, data |-> <<>>]

\* the largest page of an EEPROM and the number of its pages; the pages
\* followed here is the first
MAX_EEPROM_PAGE_SIZE == 264
NUM_EEPROM_PAGES == 4096
EepromPages == {0}

\* an empty command mailbox and an empty status mailbox, repeat request and
\* acknowledge matching, the local bus cleared, an EEPROM of 264 byte pages
\* that are all blank
InitDevice ==
  [ ec_state       |-> "OP",
    cmd_full       |-> FALSE,
    cmd            |-> NoCmd,
    status_full    |-> FALSE,
    status         |-> <<>>,
    repeat_request |-> FALSE,
    repeat_ack     |-> FALSE,
    bus            |-> [a \in Addresses |-> <<0>>],
    eeprom_page_size |-> MAX_EEPROM_PAGE_SIZE,
    eeprom         |-> [page \in EepromPages |-> <<>>] ]

\* what the device posts in its status mailbox: the data read and one
\* checksum byte
StatusFrame(bytes) == Append(bytes, CommandChecksum(bytes))

\* the first n bytes of a memory, bytes never written reading 0
ReadBytes(memory, n) ==
  [i \in 1..n |-> IF i <= Len(memory) THEN memory[i] ELSE 0]

\* a memory after bytes have been written at its start
WriteBytes(memory, bytes) ==
  bytes \o SubSeq(memory, Len(bytes) + 1, Len(memory))

\* the length the device takes from the header of a command: length_ + 1
DevLength(hdr) == hdr[3] + 256 * (hdr[4] % 16) + 1

\* one send of a frame: it is lost before the device, lost on the way back
\* after the device handled it, comes back, or comes back with working
\* counters that differ or are above 1
Outcomes == {"ok", "lost_out", "lost_back", "bad_wkc"}
Reaches(outcome) == outcome # "lost_out"

\* the device handles a read of the first and last byte of the status
\* mailbox: a full mailbox is handed out and is empty from then on
DevReadStatus(d) ==
  [ wkc  |-> IF d.status_full THEN 1 ELSE 0,
    data |-> IF d.status_full THEN d.status ELSE <<>>,
    dev  |-> [d EXCEPT !.status_full = FALSE] ]

\* the device handles a write of the command mailbox: a full mailbox
\* refuses it
DevWriteCommand(d, cmd) ==
  IF d.cmd_full
  THEN [wkc |-> 0, dev |-> d]
  ELSE [wkc |-> 1, dev |-> [d EXCEPT !.cmd_full = TRUE, !.cmd = cmd]]

\* the FPGA takes the command out of the command mailbox and executes it on
\* the local bus; the result of a read is posted in the status mailbox
dev_execute ==
  /\ dev.cmd_full
  /\ dev' = IF dev.cmd.kind = "read"
            THEN [dev EXCEPT !.cmd_full = FALSE, !.cmd = NoCmd,
                             !.status = StatusFrame(
                                 ReadBytes(dev.bus[dev.cmd.address],
                                           dev.cmd.length)),
                             !.status_full = TRUE]
            ELSE [dev EXCEPT !.cmd_full = FALSE, !.cmd = NoCmd,
                             !.bus[dev.cmd.address] =
                                 WriteBytes(@, ReadBytes(dev.cmd.data,
                                                         dev.cmd.length))]
  /\ UNCHANGED <<cycleVars, diagVars, mailbox_lock_, mailbox_diagnostics_,
                 mailbox_publish_diagnostics_, mbx_counter, pc, loc>>

\* the device answers a toggled repeat request: it posts the last status
\* frame again and toggles the acknowledge
dev_repeat_ack ==
  /\ dev.repeat_request # dev.repeat_ack
  /\ dev' = [dev EXCEPT !.repeat_ack = dev.repeat_request,
                        !.status_full = (dev.status # <<>>)]
  /\ UNCHANGED <<cycleVars, diagVars, mailbox_lock_, mailbox_diagnostics_,
                 mailbox_publish_diagnostics_, mbx_counter, pc, loc>>

\* the FPGA resets internally: what its two mailboxes held is gone
dev_reset ==
  /\ dev.cmd_full \/ dev.status_full
  /\ dev' = [dev EXCEPT !.cmd_full = FALSE, !.cmd = NoCmd,
                        !.status_full = FALSE]
  /\ UNCHANGED <<cycleVars, diagVars, mailbox_lock_, mailbox_diagnostics_,
                 mailbox_publish_diagnostics_, mbx_counter, pc, loc>>

\* the master moves the slave to another EtherCAT state
dev_state(state) ==
  /\ state # dev.ec_state
  /\ dev' = [dev EXCEPT !.ec_state = state]
  /\ UNCHANGED <<cycleVars, diagVars, mailbox_lock_, mailbox_diagnostics_,
                 mailbox_publish_diagnostics_, mbx_counter, pc, loc>>

(***************************************************************************)
(* EEPROM pages: writeEepromPage, readEepromPage and the SPI state machine *)
(* of the device                                                           *)
(***************************************************************************)
\* a page as the EEPROM holds it, blank bytes reading 0xFF
PageBytes(d, page) ==
  [i \in 1..d.eeprom_page_size |->
     IF i <= Len(d.eeprom[page]) THEN d.eeprom[page][i] ELSE 255]

\* writeMailbox went through: the bytes are on the local bus
DevBusWrite(d, address, bytes) ==
  [d EXCEPT !.bus[address] = WriteBytes(@, bytes)]

\* the SPI state machine writes the buffer into a page; an EEPROM of 256
\* byte pages ignores the last 8 bytes
DevSpiWrite(d, page) ==
  [d EXCEPT !.eeprom[page] = ReadBytes(d.bus["SPI_BUFFER"], d.eeprom_page_size)]

\* the SPI state machine reads a page into the buffer; of an EEPROM of 256
\* byte pages only the first 256 bytes come
DevSpiRead(d, page) ==
  [d EXCEPT !.bus["SPI_BUFFER"] = WriteBytes(@, PageBytes(d, page))]

\* readEepromStatusReg: two bytes are put in the buffer and shifted through
\* the EEPROM, the second comes back as the status register (ready)
DevSpiStatus(d) ==
  [d EXCEPT !.bus["SPI_BUFFER"] = WriteBytes(@, <<0, 128>>)]

\* the board is fitted with an EEPROM of 256 byte pages
dev_fit ==
  /\ last = NoOp
  /\ dev.eeprom_page_size = MAX_EEPROM_PAGE_SIZE
  /\ dev' = [dev EXCEPT !.eeprom_page_size = 256]
  /\ UNCHANGED <<cycleVars, diagVars, mailbox_lock_, mailbox_diagnostics_,
                 mailbox_publish_diagnostics_, mbx_counter, pc, loc>>

\* faulty variant: the page is padded with zeros
PadPage_Zeros(data, length) ==
  [i \in 1..MAX_EEPROM_PAGE_SIZE |-> IF i <= length THEN data[i] ELSE 0]

\* write_buf of writeEepromPage: the data, padded with 0xFF to 264 bytes
PadPage(data, length) ==
  [i \in 1..MAX_EEPROM_PAGE_SIZE |-> IF i <= length THEN data[i] ELSE 255]

\* the first of the mailbox calls and waits of a page operation that fails
\* the polls of the three waits: `while (tries <= 10)`, `while (++tries < 10)`
\* and `while (++tries < 20)`
SPI_READY_TRIES == 10
SPI_CMD_TRIES == 10
EEPROM_READY_TRIES == 20

\* In the three loops below busy_for is the number of reads of the register
\* that find the device busy (read busy_for + 1 is the first to find it
\* idle) and fail_at the read whose mailbox transfer fails (0: none does).

\* faulty variant: the loop of waitForSpiEepromReady ends one read earlier
SpiReadyAgain_OneLess(tries) == tries < SPI_READY_TRIES

\* the loop condition of waitForSpiEepromReady, tries counted before the read
SpiReadyAgain(tries) == tries <= SPI_READY_TRIES

\* the loop of waitForSpiEepromReady from `++tries` on
RECURSIVE WaitSpiLoop(_, _, _)
WaitSpiLoop(tries, busy_for, fail_at) ==
  LET n == tries + 1
  IN  IF fail_at = n THEN [rv |-> FALSE, reads |-> n]
      ELSE IF n > busy_for THEN [rv |-> TRUE, reads |-> n]
      ELSE IF SpiReadyAgain(n) THEN WaitSpiLoop(n, busy_for, fail_at)
      ELSE [rv |-> FALSE, reads |-> n]

\* waitForSpiEepromReady(com): what it returns and how often it has read
\* the command register
waitForSpiEepromReady(busy_for, fail_at) == WaitSpiLoop(0, busy_for, fail_at)

\* faulty variant: the operation read back is compared after the busy bit
SpiCmdPoll_BusyFirst(busy, mismatch) ==
  IF ~busy THEN "true" ELSE IF mismatch THEN "false" ELSE "again"

\* one poll of sendSpiEepromCmd after the register was read: the operation
\* read back is compared first, then the busy bit
SpiCmdPoll(busy, mismatch) ==
  IF mismatch THEN "false" ELSE IF ~busy THEN "true" ELSE "again"

\* the loop of sendSpiEepromCmd; tries is the count before this poll,
\* mismatch_at the poll that reads back another operation (0: none)
RECURSIVE SendSpiLoop(_, _, _, _)
SendSpiLoop(tries, busy_for, fail_at, mismatch_at) ==
  LET n == tries + 1
      poll == SpiCmdPoll(n <= busy_for, mismatch_at = n)
  IN  IF fail_at = n THEN [rv |-> FALSE, polls |-> n]
      ELSE IF poll = "false" THEN [rv |-> FALSE, polls |-> n]
      ELSE IF poll = "true" THEN [rv |-> TRUE, polls |-> n]
      ELSE IF tries + 1 < SPI_CMD_TRIES
      THEN SendSpiLoop(tries + 1, busy_for, fail_at, mismatch_at)
      ELSE [rv |-> FALSE, polls |-> n]

\* sendSpiEepromCmd(com, cmd): ready is what waitForSpiEepromReady returned,
\* write_ok tells that writeMailbox returned 0; written tells that the
\* command was written, polls counts the reads of the register after it
sendSpiEepromCmd(ready, write_ok, busy_for, fail_at, mismatch_at) ==
  IF ~ready.rv THEN [rv |-> FALSE, written |-> FALSE, polls |-> 0]
  ELSE IF ~write_ok THEN [rv |-> FALSE, written |-> TRUE, polls |-> 0]
  ELSE LET r == SendSpiLoop(0, busy_for, fail_at, mismatch_at)
       IN  [rv |-> r.rv, written |-> TRUE, polls |-> r.polls]

\* the loop of waitForEepromReady: each read is a readEepromStatusReg
RECURSIVE WaitEepromLoop(_, _, _)
WaitEepromLoop(tries, busy_for, fail_at) ==
  LET n == tries + 1
  IN  IF fail_at = n THEN [rv |-> FALSE, reads |-> n]
      ELSE IF n > busy_for THEN [rv |-> TRUE, reads |-> n]
      ELSE IF tries + 1 < EEPROM_READY_TRIES
      THEN WaitEepromLoop(tries + 1, busy_for, fail_at)
      ELSE [rv |-> FALSE, reads |-> n]

\* waitForEepromReady(com)
waitForEepromReady(busy_for, fail_at) == WaitEepromLoop(0, busy_for, fail_at)

\* the three waits, called once with what the device and the mailbox do
spi_wait(busy_for, fail_at) ==
  /\ last = NoOp
  /\ last' = [op |-> "waitForSpiEepromReady", busy_for |-> busy_for,
              fail_at |-> fail_at,
              r |-> waitForSpiEepromReady(busy_for, fail_at)]
  /\ UNCHANGED <<wg, zero_offset, halted_, diagVars, mbxVars, pc, loc>>

spi_send(ready, write_ok, busy_for, fail_at, mismatch_at) ==
  /\ last = NoOp
  /\ last' = [op |-> "sendSpiEepromCmd", ready |-> ready,
              write_ok |-> write_ok, busy_for |-> busy_for,
              fail_at |-> fail_at, mismatch_at |-> mismatch_at,
              r |-> sendSpiEepromCmd(ready, write_ok, busy_for, fail_at,
                                     mismatch_at)]
  /\ UNCHANGED <<wg, zero_offset, halted_, diagVars, mbxVars, pc, loc>>

eeprom_wait(busy_for, fail_at) ==
  /\ last = NoOp
  /\ last' = [op |-> "waitForEepromReady", busy_for |-> busy_for,
              fail_at |-> fail_at,
              r |-> waitForEepromReady(busy_for, fail_at)]
  /\ UNCHANGED <<wg, zero_offset, halted_, diagVars, mbxVars, pc, loc>>

EepromWriteFails == {"none", "spi_ready", "buffer", "command"}
EepromReadFails == {"none", "buffer", "command", "read"}

\* faulty variant: a failed write of the buffer does not end writeEepromPage
WriteSteps_BufferIgnored(fail) ==
  CASE fail = "spi_ready" -> <<"wait_ready">>
    [] fail = "command" -> <<"wait_ready", "buffer", "command">>
    [] OTHER -> <<"wait_ready", "buffer", "command", "eeprom_ready">>

\* the steps writeEepromPage makes when the step `fail` returns failure:
\* waitForSpiEepromReady, writeMailbox of the buffer, sendSpiEepromCmd,
\* waitForEepromReady
WriteSteps(fail) ==
  CASE fail = "spi_ready" -> <<"wait_ready">>
    [] fail = "buffer" -> <<"wait_ready", "buffer">>
    [] fail = "command" -> <<"wait_ready", "buffer", "command">>
    [] OTHER -> <<"wait_ready", "buffer", "command", "eeprom_ready">>

\* writeEepromPage(com, page, data, length); busy_for and fail_at are those
\* of its waitForEepromReady, steps the steps it made one after another and
\* status_reads the reads of the status register among them
writeEepromPage(page, data, length, fail, busy_for, fail_at) ==
  LET steps == IF length > MAX_EEPROM_PAGE_SIZE \/ page >= NUM_EEPROM_PAGES
               THEN <<>> ELSE WriteSteps(fail)
      did(step) == \E i \in 1..Len(steps) : steps[i] = step
      done(step) == did(step) /\ fail # step
      ready == IF did("eeprom_ready") THEN waitForEepromReady(busy_for, fail_at)
               ELSE [rv |-> FALSE, reads |-> 0]
      d1 == IF done("buffer")
            THEN DevBusWrite(dev, "SPI_BUFFER", PadPage(data, length)) ELSE dev
      d2 == IF done("command") THEN DevSpiWrite(d1, page) ELSE d1
      d3 == IF did("eeprom_ready") THEN DevSpiStatus(d2) ELSE d2
  IN  /\ dev' = d3
      /\ last' = [op |-> "writeEepromPage", ok |-> ready.rv, page |-> page,
                  length |-> length, data |-> data,
                  image |-> IF done("buffer") THEN d1.bus["SPI_BUFFER"]
                            ELSE <<>>,
                  fail |-> fail, steps |-> steps,
                  status_reads |-> ready.reads]
      /\ UNCHANGED <<wg, zero_offset, halted_, diagVars, mailbox_lock_,
                     mailbox_diagnostics_, mailbox_publish_diagnostics_,
                     mbx_counter, pc, loc>>

\* readEepromPage(com, page, data, length); info is what actuator_info_
\* holds, written is the image of a writeEepromPage of the same page that
\* returned true just before, buffer what the buffer of the device holds
\* after the mailbox write that comes before the SPI read command, and
\* commanded tells that this command was sent
readEepromPage(page, length, info, fail) ==
  LET d1 == DevBusWrite(dev, "SPI_BUFFER", info)
      d2 == DevSpiRead(d1, page)
      zeroed == [i \in 1..length |-> 0]
      written == IF last.op = "writeEepromPage" /\ last.ok /\ last.page = page
                 THEN last.image ELSE <<>>
      rv(ok, d, data) ==
        /\ dev' = d
        /\ last' = [op |-> "readEepromPage", ok |-> ok, page |-> page,
                    length |-> length, data |-> data, written |-> written,
                    commanded |-> fail \in {"none", "read"},
                    buffer |-> d1.bus["SPI_BUFFER"]]
  IN  /\ IF length > MAX_EEPROM_PAGE_SIZE \/ page >= NUM_EEPROM_PAGES
         THEN rv(FALSE, dev, <<>>)
         ELSE IF fail = "buffer" THEN rv(FALSE, dev, zeroed)
         ELSE IF fail = "command" THEN rv(FALSE, d1, zeroed)
         ELSE IF fail = "read" THEN rv(FALSE, d2, zeroed)
         ELSE rv(TRUE, d2, ReadBytes(d2.bus["SPI_BUFFER"], length))
      /\ UNCHANGED <<wg, zero_offset, halted_, diagVars, mailbox_lock_,
                     mailbox_diagnostics_, mailbox_publish_diagnostics_,
                     mbx_counter, pc, loc>>

(***************************************************************************)
(* The mailbox transaction engine                                          *)
(***************************************************************************)
\* faulty variant: the mailbox lock is handed out whoever holds it
MailboxLockFree_Always == TRUE

\* pthread_mutex_lock(&mailbox_lock_) goes through
MailboxLockFree == mailbox_lock_ = NoOwner

verifyDeviceStateForMailboxOperation == dev.ec_state \in {"SAFEOP", "OP"}

\* a history counter stops at HistMax
Sat(n) == IF n >= HistMax THEN HistMax ELSE n

\* what clearReadMailbox came to: whether a send came back, the working
\* counters of its two telegrams and what it returned
NoClear == [done |-> FALSE, back |-> FALSE, wkc |-> <<0, 0>>, rv |-> FALSE]
Cleared(back, wkc, rv) == [done |-> TRUE, back |-> back, wkc |-> wkc, rv |-> rv]

\* the locals of one readMailbox / writeMailbox call, its result and what
\* the transport did to it; ret is where the caller goes on, keep what the
\* caller holds across the call
MbxCall(kind, address, value, ret, keep) ==
  [ op |-> "mailbox", kind |-> kind, address |-> address, value |-> value,
    ret |-> ret, keep |-> keep,
    tries |-> 0, sends |-> 0, dropped |-> 0, orig_request |-> FALSE,
    result |-> 0, data |-> <<>>,
    bad_state |-> FALSE, wait_failed |-> FALSE,
    faults |-> 0, lost_reply |-> FALSE, refused_resend |-> FALSE,
    toggles |-> 0, clear |-> NoClear ]

Faulted(l) == [l EXCEPT !.faults = Sat(l.faults + 1)]

\* the call goes on at another place
Goto(to, l) == [to |-> to, l |-> l]
\* faulty variant: a failed transaction leaves the caller without the unlock
Finish_FailureSkipsUnlock(l, result) ==
  [to |-> IF result # 0 THEN "idle" ELSE "mb_unlock",
   l |-> [l EXCEPT !.result = result]]

\* readMailbox_ / writeMailbox_ returns result
Finish(l, result) == [to |-> "mb_unlock", l |-> [l EXCEPT !.result = result]]

MbxStep(t, n) ==
  /\ pc' = [pc EXCEPT ![t] = n.to]
  /\ loc' = [loc EXCEPT ![t] = n.l]

\* lockMailbox() of readMailbox, writeMailbox
mb_lock(t) ==
  /\ pc[t] = "mb_lock"
  /\ MailboxLockFree
  /\ mailbox_lock_' = t
  /\ pc' = [pc EXCEPT ![t] = "mb_in"]
  /\ UNCHANGED <<cycleVars, diagVars, mailbox_diagnostics_,
                 mailbox_publish_diagnostics_, dev, mbx_counter, loc>>

\* the command is built (a length above the limit fails); entering
\* writeMailboxInternal the state is verified once more
EnterWrite(l) ==
  IF ~HdrLengthOk(Len(l.value), IF l.kind = "write" THEN "LOCAL_BUS_WRITE"
                                ELSE "LOCAL_BUS_READ")
  THEN Finish(l, -1)
  ELSE IF verifyDeviceStateForMailboxOperation
  THEN Goto("wr", [l EXCEPT !.sends = 0])
  ELSE Finish(l, -1)

\* entering readMailboxInternal: the state is verified once more
EnterRead(l) ==
  IF verifyDeviceStateForMailboxOperation
  THEN Goto("rd", [l EXCEPT !.tries = 0, !.dropped = 0])
  ELSE Finish(l, -1)

\* readMailbox_ / writeMailbox_ up to the first frame: the state check;
\* readMailbox_ returns false (0) where writeMailbox_ returns -1
mbx_enter(t) ==
  /\ pc[t] = "mb_in"
  /\ LET l == loc[t]
         bad == [l EXCEPT !.bad_state = TRUE]
     IN  IF ~verifyDeviceStateForMailboxOperation
         THEN /\ MbxStep(t, Finish(bad, IF l.kind = "read" THEN 0 ELSE -1))
              /\ UNCHANGED mbx_counter
         ELSE IF l.kind = "read"
         THEN /\ MbxStep(t, Goto("clr", [l EXCEPT !.tries = 0]))
              /\ UNCHANGED mbx_counter
         ELSE /\ MbxStep(t, EnterWrite(l))
              /\ mbx_counter' = mbx_counter + 1
  /\ UNCHANGED <<cycleVars, diagVars, mailbox_lock_, mailbox_diagnostics_,
                 mailbox_publish_diagnostics_, dev>>

\* working counters of the two telegrams that differ or are above 1
BadCounters == {<<0, 1>>, <<1, 0>>, <<2, 2>>}

\* faulty variant: a mailbox that held stale data fails the flush
clearVerdict_GarbageFails(wkc) == wkc[1] = wkc[2] /\ wkc[1] = 0

\* clearReadMailbox after a send that came back: the two working counters
\* are compared, more than one device is an error, 1 only a warning
clearVerdict(wkc) ==
  IF wkc[1] # wkc[2] THEN FALSE
  ELSE IF wkc[1] > 1 THEN FALSE
  ELSE TRUE

\* clearReadMailbox: one send of the flush frame, and what follows it
clr_send(t, outcome) ==
  /\ pc[t] = "clr"
  /\ LET l == loc[t]
         r == DevReadStatus(dev)
         f == Faulted(l)
     IN  /\ dev' = IF Reaches(outcome) THEN r.dev ELSE dev
         /\ IF outcome \in {"ok", "bad_wkc"}
            THEN \E wkc \in IF outcome = "ok" THEN {<<r.wkc, r.wkc>>}
                             ELSE BadCounters :
                   IF clearVerdict(wkc)
                   THEN /\ MbxStep(t, EnterWrite(
                             [l EXCEPT !.clear = Cleared(TRUE, wkc, TRUE)]))
                        /\ mbx_counter' = mbx_counter + 1
                   ELSE /\ MbxStep(t, Finish(
                             [f EXCEPT !.clear = Cleared(TRUE, wkc, FALSE)], -1))
                        /\ UNCHANGED mbx_counter
            ELSE /\ MbxStep(t, IF l.tries + 1 >= MAX_DROPS
                               THEN Finish([f EXCEPT !.clear =
                                              Cleared(FALSE, <<0, 0>>, FALSE)],
                                           -1)
                               ELSE Goto("clr", [f EXCEPT !.tries = l.tries + 1]))
                 /\ UNCHANGED mbx_counter
  /\ UNCHANGED <<cycleVars, diagVars, mailbox_lock_, mailbox_diagnostics_,
                 mailbox_publish_diagnostics_>>

\* what follows a write frame that the device accepted, or refused after an
\* earlier send of it was lost
AfterWrite(l) ==
  IF l.kind = "read" THEN Goto("wait_rd", l) ELSE Goto("wait_wr", l)

\* faulty variant: a refused write fails however often it was sent
RefusedWrite_AlwaysFails(s) == Finish(s, -1)

\* writeMailboxInternal: the write came back with working counter 0; sent
\* once it is a failure, sent again after a loss it is tolerated
RefusedWrite(s) ==
  IF s.sends <= 1 THEN Finish(s, -1) ELSE AfterWrite(s)

\* the command the call writes into the command mailbox
CommandOf(l) ==
  LET type == IF l.kind = "write" THEN "LOCAL_BUS_WRITE" ELSE "LOCAL_BUS_READ"
      hdr  == HdrFrame(0, Len(l.value), type, 0)
  IN  [kind |-> l.kind, address |-> l.address, length |-> DevLength(hdr),
       data |-> IF l.kind = "write"
                THEN CmdData(Len(l.value), TRUE, l.value) ELSE <<>>]

\* writeMailboxInternal: one send of the write frame, and what follows it
wr_send(t, outcome) ==
  /\ pc[t] = "wr"
  /\ LET l == loc[t]
         r == DevWriteCommand(dev, CommandOf(l))
         \* the verdict of the flush was a return value: nothing of it is
         \* kept once the call has gone on to send the command
         s == [l EXCEPT !.sends = l.sends + 1, !.clear = NoClear]
         f == Faulted(s)
     IN  /\ dev' = IF Reaches(outcome) THEN r.dev ELSE dev
         /\ MbxStep(t,
              IF outcome = "ok"
              THEN IF r.wkc = 1 THEN AfterWrite(s)
                   ELSE RefusedWrite(s)
              ELSE IF outcome = "bad_wkc" THEN Finish(f, -1)
              ELSE IF s.sends >= WRITE_TRIES THEN Finish(f, -1)
              ELSE Goto("wr", f))
  /\ UNCHANGED <<cycleVars, diagVars, mailbox_lock_, mailbox_diagnostics_,
                 mailbox_publish_diagnostics_, mbx_counter>>

\* waitForReadMailboxReady: one poll of the status mailbox; timeout tells
\* that the 100 ms are over after it
wait_rd(t, poll, timeout) ==
  /\ pc[t] = "wait_rd"
  /\ LET l == loc[t]
     IN  MbxStep(t,
           IF poll = "ok" /\ dev.status_full THEN EnterRead(l)
           ELSE IF timeout
           THEN Finish([Faulted(l) EXCEPT !.wait_failed = TRUE], -1)
           ELSE Goto("wait_rd", IF poll = "ok" THEN l ELSE Faulted(l)))
  /\ UNCHANGED <<cycleVars, diagVars, mbxVars>>

\* waitForWriteMailboxReady: one poll of the command mailbox; writeMailbox_
\* logs a failed wait and returns 0
wait_wr(t, poll, timeout) ==
  /\ pc[t] = "wait_wr"
  /\ LET l == loc[t]
     IN  MbxStep(t,
           IF poll = "ok" /\ ~dev.cmd_full THEN Finish(l, 0)
           ELSE IF timeout
           THEN Finish([Faulted(l) EXCEPT !.wait_failed = TRUE], 0)
           ELSE Goto("wait_wr", IF poll = "ok" THEN l ELSE Faulted(l)))
  /\ UNCHANGED <<cycleVars, diagVars, mbxVars>>

\* faulty variant: a repeat request that went through is not counted as a
\* try of readMailboxInternal
RepeatDone_KeepsTries(l, success) ==
  IF ~success THEN Finish(l, -1)
  ELSE Goto("rd", [l EXCEPT !.dropped = 0])

\* faulty variant: readMailboxInternal gives up after a repeat request
RepeatDone_GivesUp(l, success) == Finish(l, -1)

\* readMailboxRepeatRequest returns: the retry counters, then the loop of
\* readMailboxInternal goes on with the next try or gives up
RepeatDone(l, success) ==
  IF ~success THEN Finish(l, -1)
  ELSE IF l.tries + 1 >= MAX_TRIES THEN Finish(l, -1)
  ELSE Goto("rd", [l EXCEPT !.tries = l.tries + 1, !.dropped = 0])

CountRetry(m, success) ==
  [m EXCEPT !.retries_ = m.retries_ + 1,
            !.retry_errors_ = m.retry_errors_ + (IF success THEN 0 ELSE 1)]

\* faulty variant: a refused read asks for a repeat whatever was dropped
RefusedRead_AlwaysRepeats(l) ==
  Goto("rr_read", [l EXCEPT !.refused_resend = TRUE])

\* readMailboxInternal: the read came back with working counter 0; with no
\* packet dropped in this attempt it is an inconsistency, else the device is
\* asked to post the data again
RefusedRead(l) ==
  IF l.dropped = 0 THEN Finish(l, -1)
  ELSE Goto("rr_read", [l EXCEPT !.refused_resend = TRUE])

\* readMailboxInternal: one send of the read frame, and what follows it; a
\* frame that never came back leaves working counter 0 in the telegram
rd_send(t, outcome) ==
  /\ pc[t] = "rd"
  /\ LET l == loc[t]
         r == DevReadStatus(dev)
         f == [Faulted(l) EXCEPT
                 !.dropped = l.dropped + 1,
                 !.lost_reply = l.lost_reply \/
                                (outcome = "lost_back" /\ r.wkc = 1)]
     IN  /\ dev' = IF Reaches(outcome) THEN r.dev ELSE dev
         /\ MbxStep(t,
              IF outcome = "ok"
              THEN IF r.wkc = 1
                   THEN LET stat == ReadBytes(r.data, Len(l.value) + 1)
                        IN  IF computeChecksum(stat) # 0 THEN Finish(l, -1)
                            ELSE Finish([l EXCEPT !.data =
                                           SubSeq(stat, 1, Len(l.value))], 0)
                   ELSE RefusedRead(l)
              ELSE IF outcome = "bad_wkc" THEN Finish(Faulted(l), -1)
              ELSE IF f.dropped >= MAX_DROPPED THEN Goto("rr_read", f)
              ELSE Goto("rd", f))
  /\ UNCHANGED <<cycleVars, diagVars, mailbox_lock_, mailbox_diagnostics_,
                 mailbox_publish_diagnostics_, mbx_counter>>

\* _readMailboxRepeatRequest: the sync manager is read; request and
\* acknowledge must match before the toggle (a device that still owes the
\* acknowledge of an earlier request counts as a fault of this call)
rr_read(t, poll) ==
  /\ pc[t] = "rr_read"
  /\ LET l == loc[t]
         ok == poll = "ok" /\ dev.repeat_request = dev.repeat_ack
     IN  /\ MbxStep(t,
              IF ok THEN Goto("rr_write",
                              [l EXCEPT !.orig_request = dev.repeat_request])
              ELSE RepeatDone(Faulted(l), FALSE))
         /\ mailbox_diagnostics_' =
              IF ok THEN mailbox_diagnostics_
              ELSE CountRetry(mailbox_diagnostics_, FALSE)
  /\ UNCHANGED <<cycleVars, diagVars, mailbox_lock_,
                 mailbox_publish_diagnostics_, dev, mbx_counter>>

\* _readMailboxRepeatRequest: the toggled repeat request is written
rr_write(t, outcome) ==
  /\ pc[t] = "rr_write"
  /\ LET l == [loc[t] EXCEPT !.toggles = Sat(loc[t].toggles + 1)]
     IN  /\ dev' = IF Reaches(outcome)
                   THEN [dev EXCEPT !.repeat_request = ~l.orig_request]
                   ELSE dev
         /\ MbxStep(t, IF outcome = "ok" THEN Goto("rr_poll", l)
                       ELSE RepeatDone(Faulted(l), FALSE))
         /\ mailbox_diagnostics_' =
              IF outcome = "ok" THEN mailbox_diagnostics_
              ELSE CountRetry(mailbox_diagnostics_, FALSE)
  /\ UNCHANGED <<cycleVars, diagVars, mailbox_lock_,
                 mailbox_publish_diagnostics_, mbx_counter>>

\* _readMailboxRepeatRequest: one poll for the acknowledge
rr_poll(t, poll, timeout) ==
  /\ pc[t] = "rr_poll"
  /\ LET l == loc[t]
         acked == dev.repeat_request = dev.repeat_ack
         done == \/ poll # "ok"
                 \/ acked
                 \/ dev.repeat_request = l.orig_request
                 \/ timeout
         success == poll = "ok" /\ acked /\ dev.status_full
     IN  /\ MbxStep(t,
              IF done
              THEN RepeatDone(IF poll = "ok" /\ acked THEN l ELSE Faulted(l),
                              success)
              ELSE Goto("rr_poll", l))
         /\ mailbox_diagnostics_' =
              IF done THEN CountRetry(mailbox_diagnostics_, success)
              ELSE mailbox_diagnostics_
  /\ UNCHANGED <<cycleVars, diagVars, mailbox_lock_,
                 mailbox_publish_diagnostics_, dev, mbx_counter>>

\* readMailbox_ / writeMailbox_ as its callers see it: it returns result,
\* a read that went through has the data of the local bus and a write that
\* went through has changed it
mb_transact(t, result) ==
  /\ pc[t] = "mb_in"
  /\ verifyDeviceStateForMailboxOperation
  /\ LET l == loc[t]
     IN  /\ MbxStep(t, Finish([l EXCEPT !.data =
                                  IF l.kind = "read" /\ result = 0
                                  THEN ReadBytes(dev.bus[l.address],
                                                 Len(l.value))
                                  ELSE <<>>],
                              result))
         /\ dev' = IF l.kind = "write" /\ result = 0
                   THEN [dev EXCEPT !.bus[l.address] = WriteBytes(@, l.value)]
                   ELSE dev
  /\ UNCHANGED <<cycleVars, diagVars, mailbox_lock_, mailbox_diagnostics_,
                 mailbox_publish_diagnostics_, mbx_counter>>

\* the error count of readMailbox / writeMailbox
CountResult(m, kind, result) ==
  IF result = 0 THEN m
  ELSE IF kind = "read" THEN [m EXCEPT !.read_errors_ = m.read_errors_ + 1]
  ELSE [m EXCEPT !.write_errors_ = m.write_errors_ + 1]

(***************************************************************************)
(* The callers of the mailbox: readMailbox / writeMailbox return           *)
(***************************************************************************)
\* faulty variant: the mailbox lock is kept over the return
unlockMailbox_Keeps(t) == t

\* pthread_mutex_unlock(&mailbox_lock_): the owner after it
unlockMailbox(t) == NoOwner

\* the locals of collectDiagnostics: success and the two records read
CdLocals == [op |-> "collect", success |-> FALSE, s |-> 0, di |-> 0]

(***************************************************************************)
(* writeEepromPage as the mailbox calls it is made of                      *)
(***************************************************************************)
\* the three bytes of a WG0XSpiEepromCmd: page_ (or the length of an
\* arbitrary transfer), operation_, and the bits start_ and busy_
SpiCmdBytes(operation, page, start) ==
  <<page % 256,
    (page \div 256) + 16 * (CASE operation = "write" -> 0
                              [] operation = "read" -> 1
                              [] OTHER -> 3),
    IF start THEN 1 ELSE 0>>

SpiOperation(bytes) == bytes[2] \div 16
SpiBusy_(bytes) == (bytes[3] \div 2) % 2 = 1

\* the locals of writeEepromPage: the call it is at, the polls of the wait
\* it is in and the reads of the status register
EeLocals(page, data) ==
  [op |-> "writeEepromPage", step |-> 1, page |-> page, data |-> data,
   polls |-> 0, tries |-> 0, ok |-> FALSE]

\* the mailbox calls of writeEepromPage one after another:
\*   1 waitForSpiEepromReady          2 the data go to the buffer
\*   3-5 sendSpiEepromCmd(write): wait, command, read back
\*   6-10 readEepromStatusReg of waitForEepromReady: two bytes to the
\*        buffer, sendSpiEepromCmd(arbitrary), the buffer is read
EeRequest(k) ==
  CASE k.step \in {1, 3, 5, 7, 9} ->
         [kind |-> "read", address |-> "SPI_COMMAND", value |-> <<0, 0, 0>>]
    [] k.step = 2 ->
         [kind |-> "write", address |-> "SPI_BUFFER",
          value |-> [i \in 1..MAX_EEPROM_PAGE_SIZE |->
                       IF i <= Len(k.data) THEN k.data[i] ELSE 255]]
    [] k.step = 4 ->
         [kind |-> "write", address |-> "SPI_COMMAND",
          value |-> SpiCmdBytes("write", k.page, TRUE)]
    [] k.step = 6 ->
         [kind |-> "write", address |-> "SPI_BUFFER", value |-> <<215, 0>>]
    [] k.step = 8 ->
         [kind |-> "write", address |-> "SPI_COMMAND",
          value |-> SpiCmdBytes("arbitrary", 2, TRUE)]
    [] OTHER ->
         [kind |-> "read", address |-> "SPI_BUFFER", value |-> <<0, 0>>]

\* faulty variant: the next mailbox call of the operation goes on under the
\* lock of the one before, without lockMailbox
EeCall_NoLock(k) ==
  LET r == EeRequest(k)
  IN  Goto("mb_in", MbxCall(r.kind, r.address, r.value, "ee", k))

\* readMailbox / writeMailbox is called: lockMailbox comes first
EeCall(k) ==
  LET r == EeRequest(k)
  IN  Goto("mb_lock", MbxCall(r.kind, r.address, r.value, "ee", k))

EeReturn(k, ok) == Goto("idle", [k EXCEPT !.ok = ok])

\* writeEepromPage goes on after the mailbox call l has returned
ee_next(l) ==
  LET k == l.keep
      step(n) == EeCall([k EXCEPT !.step = n, !.polls = 0])
  IN  IF l.result # 0 THEN EeReturn(k, FALSE)
      ELSE CASE k.step \in {1, 3, 7} ->
                  \* waitForSpiEepromReady: do { ++tries; ... } while (tries <= 10)
                  IF ~SpiBusy_(l.data) THEN step(k.step + 1)
                  ELSE IF k.polls + 1 <= 10
                  THEN EeCall([k EXCEPT !.polls = k.polls + 1])
                  ELSE EeReturn(k, FALSE)
             [] k.step \in {5, 9} ->
                  \* the read back of sendSpiEepromCmd: while (++tries < 10)
                  IF SpiOperation(l.data)
                       # SpiOperation(EeRequest([k EXCEPT !.step = k.step - 1]).value)
                  THEN EeReturn(k, FALSE)
                  ELSE IF ~SpiBusy_(l.data) THEN step(k.step + 1)
                  ELSE IF k.polls + 1 < 10
                  THEN EeCall([k EXCEPT !.polls = k.polls + 1])
                  ELSE EeReturn(k, FALSE)
             [] k.step = 10 ->
                  \* waitForEepromReady: ready_ is the top bit of the
                  \* second byte; while (++tries < 20)
                  IF l.data[2] \div 128 = 1 THEN EeReturn(k, TRUE)
                  ELSE IF k.tries + 1 < 20
                  THEN EeCall([k EXCEPT !.step = 6, !.polls = 0,
                                        !.tries = k.tries + 1])
                  ELSE EeReturn(k, FALSE)
             [] OTHER -> step(k.step + 1)

\* where the caller goes on after the call, and with what
AfterCall(l) ==
  CASE l.ret = "cd_s" ->
         IF l.result # 0 THEN Goto("cd_end", l.keep)
         ELSE Goto("mb_lock",
                   MbxCall("read", "DIAG_INFO", <<0>>, "cd_di",
                           [l.keep EXCEPT !.s = l.data[1]]))
    [] l.ret = "cd_di" ->
         IF l.result # 0 THEN Goto("cd_end", l.keep)
         ELSE Goto("cd_cmp", [l.keep EXCEPT !.di = l.data[1]])
    [] l.ret = "cd_wr" ->
         IF l.result # 0 THEN Goto("cd_end", [l.keep EXCEPT !.success = TRUE])
         ELSE Goto("cd_cache", l.keep)
    [] l.ret = "ee" -> ee_next(l)
    [] OTHER -> Goto("idle", l)

\* readMailbox / writeMailbox after the transaction: the error count,
\* unlockMailbox(), return
mb_unlock(t) ==
  /\ pc[t] = "mb_unlock"
  /\ mailbox_diagnostics_' =
       CountResult(mailbox_diagnostics_, loc[t].kind, loc[t].result)
  /\ mailbox_lock_' = unlockMailbox(t)
  /\ MbxStep(t, AfterCall(loc[t]))
  /\ UNCHANGED <<cycleVars, diagVars, mailbox_publish_diagnostics_, dev,
                 mbx_counter>>

\* a thread other than the two diagnostic ones calls readMailbox or
\* writeMailbox
user_call(kind, address, value) ==
  /\ pc["user"] = "idle"
  /\ pc' = [pc EXCEPT !["user"] = "mb_lock"]
  /\ loc' = [loc EXCEPT !["user"] = MbxCall(kind, address, value, "user", NoOp)]
  /\ UNCHANGED <<cycleVars, diagVars, mbxVars>>

(***************************************************************************)
(* WG0XActuatorInfo and its two CRCs                                       *)
(***************************************************************************)
\* sizeof(WG0XActuatorInfo) and the offsets of its two CRC fields
sizeof_WG0XActuatorInfo == 264
offsetof_crc32_256_ == 252
offsetof_crc32_264_ == 260

\* boost::crc_32_type: the polynomial 0x04C11DB7 with input and output
\* reflected, the remainder starting at and xor-ed in the end with
\* 0xFFFFFFFF.  A 32 bit value is the set of its bits that are 1.
CrcPoly == {31 - e : e \in {26, 23, 22, 16, 12, 11, 10, 8, 7, 5, 4, 2, 1, 0}}
CrcInitialRemainder == 0..31

Xor32(a, b) == {i \in 0..31 : (i \in a) # (i \in b)}

\* the bits of a byte
BitsOf(byte) == {i \in 0..7 : (byte \div (2 ^ i)) % 2 = 1}

\* byte k (0 the lowest) of a 32 bit value
RECURSIVE ByteOf(_, _, _)
ByteOf(c, k, i) ==
  IF i = 8 THEN 0
  ELSE (IF (8 * k + i) \in c THEN 2 ^ i ELSE 0) + ByteOf(c, k, i + 1)

\* n steps of the shift register
RECURSIVE CrcBits(_, _)
CrcBits(reg, n) ==
  IF n = 0 THEN reg
  ELSE LET shifted == {i - 1 : i \in reg \ {0}}
       IN  CrcBits(IF 0 \in reg THEN Xor32(shifted, CrcPoly) ELSE shifted,
                   n - 1)

\* crc.process_bytes over the bytes from .. to - 1 of a record, the
\* remainder being reg before; the range is worked through in halves
RECURSIVE process_bytes(_, _, _, _)
process_bytes(reg, info, from, to) ==
  IF from >= to THEN reg
  ELSE IF to = from + 1 THEN CrcBits(Xor32(reg, BitsOf(info[from])), 8)
  ELSE LET mid == (from + to) \div 2
           first_half == process_bytes(reg, info, from, mid)
       IN  IF first_half \subseteq 0..31
           THEN process_bytes(first_half, info, mid, to)
           ELSE first_half

\* crc.checksum() after process_bytes(this, size)
checksum(info, size) ==
  LET reg == process_bytes(CrcInitialRemainder, info, 0, size)
  IN  {i \in 0..31 : i \notin reg}

\* a uint32_t field of the record, lowest byte first
LoadField(info, offset) ==
  UNION {{8 * k + i : i \in BitsOf(info[offset + k])} : k \in 0..3}

StoreField(info, offset, c) ==
  [i \in DOMAIN info |->
     IF i \in offset..(offset + 3) THEN ByteOf(c, i - offset, 0) ELSE info[i]]

\* faulty variant: both CRCs have to match
verifyCRC_BothNeeded(info) ==
  /\ LoadField(info, offsetof_crc32_264_) = checksum(info, offsetof_crc32_264_)
  /\ LoadField(info, offsetof_crc32_256_) = checksum(info, offsetof_crc32_256_)

\* WG0XActuatorInfo::verifyCRC
verifyCRC(info) ==
  \/ LoadField(info, offsetof_crc32_264_) = checksum(info, offsetof_crc32_264_)
  \/ LoadField(info, offsetof_crc32_256_) = checksum(info, offsetof_crc32_256_)

\* WG0XActuatorInfo::generateCRC
generateCRC(info) ==
  LET with_256 == StoreField(info, offsetof_crc32_256_,
                             checksum(info, offsetof_crc32_256_))
  IN  StoreField(with_256, offsetof_crc32_264_,
                 checksum(with_256, offsetof_crc32_264_))

\* a record as configured in the past: the 264 byte CRC only, the place of
\* crc32_256_ being padding
Only264(info) ==
  StoreField(info, offsetof_crc32_264_, checksum(info, offsetof_crc32_264_))

(***************************************************************************)
(* collectDiagnostics                                                      *)
(***************************************************************************)
\* faulty variant: the difference of the two counters without the 0xFF mask
Delta8_Unmasked(new, old) == new - old

\* (new - old) of two 8 bit counters, 0xFF & ...
Delta8(new, old) == (new - old + 256) % 256

\* faulty variant: the record read is not kept for the next update
update_KeepsOldRecord(dg, s, di) ==
  [dg EXCEPT
     !.first_ = FALSE,
     !.safety_disable_total_ =
        @ + Delta8(s, dg.safety_disable_status_.safety_disable_count_)]

\* WG0XDiagnostics::update; s is the new safety_disable_count_, di the new
\* safety disable counters
update(dg, s, di) ==
  LET old_counters == dg.diagnostics_info_ IN
  [dg EXCEPT
     !.first_ = FALSE,
     !.safety_disable_total_ =
        @ + Delta8(s, dg.safety_disable_status_.safety_disable_count_),
     !.undervoltage_total_ =
        @ + Delta8(di.undervoltage_count_, old_counters.undervoltage_count_),
     !.over_current_total_ =
        @ + Delta8(di.over_current_count_, old_counters.over_current_count_),
     !.board_over_temp_total_ =
        @ + Delta8(di.board_over_temp_count_,
                   old_counters.board_over_temp_count_),
     !.bridge_over_temp_total_ =
        @ + Delta8(di.bridge_over_temp_count_,
                   old_counters.bridge_over_temp_count_),
     !.operate_disable_total_ =
        @ + Delta8(di.operate_disable_count_,
                   old_counters.operate_disable_count_),
     !.watchdog_disable_total_ =
        @ + Delta8(di.watchdog_disable_count_,
                   old_counters.watchdog_disable_count_),
     !.safety_disable_status_.safety_disable_count_ = s,
     !.diagnostics_info_ = di]

\* collectDiagnostics up to its first mailbox call: the presence probe
cd_call(present) ==
  /\ pc["collect"] = "idle"
  /\ MbxStep("collect",
       IF present
       THEN Goto("mb_lock", MbxCall("read", "SAFETY_STATUS", <<0>>, "cd_s", CdLocals))
       ELSE Goto("cd_end", CdLocals))
  /\ UNCHANGED <<cycleVars, diagVars, mbxVars>>

\* if (app_ram_status_ == APP_RAM_PRESENT && dg.zero_offset_ !=
\* dg.cached_zero_offset_) writeAppRam(com, dg.zero_offset_): the record is
\* read with no lock held
cd_cmp ==
  /\ pc["collect"] = "cd_cmp"
  /\ LET dg == wg0x_collect_diagnostics_
         l  == loc["collect"]
     IN  MbxStep("collect",
           IF /\ wg.app_ram_status_ = "APP_RAM_PRESENT"
              /\ dg.zero_offset_ # dg.cached_zero_offset_
           THEN Goto("mb_lock",
                     MbxCall("write", "APP_RAM", <<dg.zero_offset_>>, "cd_wr", l))
           ELSE Goto("cd_end", [l EXCEPT !.success = TRUE]))
  /\ UNCHANGED <<cycleVars, diagVars, mbxVars>>

\* dg.cached_zero_offset_ = dg.zero_offset_ after writeAppRam went through:
\* the record is read and written with no lock held
cd_cache ==
  /\ pc["collect"] = "cd_cache"
  /\ wg0x_collect_diagnostics_' =
       [wg0x_collect_diagnostics_ EXCEPT
          !.cached_zero_offset_ = wg0x_collect_diagnostics_.zero_offset_]
  /\ MbxStep("collect",
             Goto("cd_end", [loc["collect"] EXCEPT !.success = TRUE]))
  /\ UNCHANGED <<cycleVars, wg0x_diagnostics_lock_,
                 wg0x_publish_diagnostics_, mbxVars>>

\* end: lockWG0XDiagnostics() goes through
cd_lock ==
  /\ pc["collect"] = "cd_end"
  /\ wg0x_diagnostics_lock_ = NoOwner
  /\ wg0x_diagnostics_lock_' = "collect"
  /\ pc' = [pc EXCEPT !["collect"] = "cd_locked"]
  /\ UNCHANGED <<cycleVars, wg0x_collect_diagnostics_,
                 wg0x_publish_diagnostics_, mbxVars, loc>>

\* end: lockWG0XDiagnostics() fails; lock_errors_, valid_ and first_ are
\* written without the lock, and collectDiagnostics returns
cd_lock_error ==
  /\ pc["collect"] = "cd_end"
  /\ wg0x_collect_diagnostics_' =
       [wg0x_collect_diagnostics_ EXCEPT
          !.lock_errors_ = @ + 1, !.valid_ = FALSE, !.first_ = FALSE]
  /\ MbxStep("collect", Goto("idle", NoOp))
  /\ UNCHANGED <<cycleVars, wg0x_diagnostics_lock_,
                 wg0x_publish_diagnostics_, mbxVars>>

\* faulty variant: update(s, di) is called whether the poll succeeded or not
cd_update_Unconditional ==
  /\ pc["collect"] = "cd_locked"
  /\ LET l  == loc["collect"]
         dg == [wg0x_collect_diagnostics_ EXCEPT !.valid_ = l.success]
     IN  wg0x_collect_diagnostics_' =
           update(dg, l.s, SafetyDisableCounters(l.di))
  /\ wg0x_diagnostics_lock_' = NoOwner
  /\ MbxStep("collect", Goto("idle", NoOp))
  /\ UNCHANGED <<cycleVars, wg0x_publish_diagnostics_, mbxVars>>

\* valid_ = success; update(s, di) if success; unlockWG0XDiagnostics()
cd_update ==
  /\ pc["collect"] = "cd_locked"
  /\ LET l  == loc["collect"]
         dg == [wg0x_collect_diagnostics_ EXCEPT !.valid_ = l.success]
     IN  wg0x_collect_diagnostics_' =
           IF l.success THEN update(dg, l.s, SafetyDisableCounters(l.di)) ELSE dg
  /\ wg0x_diagnostics_lock_' = NoOwner
  /\ MbxStep("collect", Goto("idle", NoOp))
  /\ UNCHANGED <<cycleVars, wg0x_publish_diagnostics_, mbxVars>>

(***************************************************************************)
(* The publisher: publishMailboxDiagnostics, publishGeneralDiagnostics     *)
(***************************************************************************)
pm_call ==
  /\ pc["publish"] = "idle"
  /\ pc' = [pc EXCEPT !["publish"] = "pm_lock"]
  /\ UNCHANGED <<cycleVars, diagVars, mbxVars, loc>>

\* lockMailbox() of publishMailboxDiagnostics
pm_lock ==
  /\ pc["publish"] = "pm_lock"
  /\ MailboxLockFree
  /\ mailbox_lock_' = "publish"
  /\ pc' = [pc EXCEPT !["publish"] = "pm_copy"]
  /\ UNCHANGED <<cycleVars, diagVars, mailbox_diagnostics_,
                 mailbox_publish_diagnostics_, dev, mbx_counter, loc>>

\* mailbox_publish_diagnostics_ = mailbox_diagnostics_; unlockMailbox()
pm_copy ==
  /\ pc["publish"] = "pm_copy"
  /\ mailbox_publish_diagnostics_' = mailbox_diagnostics_
  /\ mailbox_lock_' = unlockMailbox("publish")
  /\ pc' = [pc EXCEPT !["publish"] = "idle"]
  /\ UNCHANGED <<cycleVars, diagVars, mailbox_diagnostics_, dev,
                 mbx_counter, loc>>

\* publishGeneralDiagnostics: tryLockWG0XDiagnostics()
pg_call ==
  /\ pc["publish"] = "idle"
  /\ IF tryLockWG0XDiagnostics
     THEN /\ wg0x_diagnostics_lock_' = "publish"
          /\ pc' = [pc EXCEPT !["publish"] = "pg_locked"]
     ELSE /\ pc' = [pc EXCEPT !["publish"] = "pg_rest"]
          /\ UNCHANGED wg0x_diagnostics_lock_
  /\ UNCHANGED <<cycleVars, wg0x_collect_diagnostics_,
                 wg0x_publish_diagnostics_, mbxVars, loc>>

\* wg0x_publish_diagnostics_ = wg0x_collect_diagnostics_;
\* unlockWG0XDiagnostics()
pg_copy ==
  /\ pc["publish"] = "pg_locked"
  /\ wg0x_publish_diagnostics_' = wg0x_collect_diagnostics_
  /\ wg0x_diagnostics_lock_' = NoOwner
  /\ pc' = [pc EXCEPT !["publish"] = "pg_rest"]
  /\ UNCHANGED <<cycleVars, wg0x_collect_diagnostics_, mbxVars, loc>>

\* the rest of publishGeneralDiagnostics: a timestamp jump together with
\* the held SAFETY_OPERATIONAL bit is taken for an FPGA reset
pg_rest ==
  /\ pc["publish"] = "pg_rest"
  /\ wg' = IF /\ wg.timestamp_jump_detected_
              /\ "OPERATIONAL" \in wg0x_publish_diagnostics_
                      .safety_disable_status_.safety_disable_status_hold_
           THEN [wg EXCEPT !.fpga_internal_reset_detected_ = TRUE]
           ELSE wg
  /\ pc' = [pc EXCEPT !["publish"] = "idle"]
  /\ UNCHANGED <<zero_offset, halted_, last, diagVars, mbxVars, loc>>

(***************************************************************************)
(* Initial state and the specification of the realtime cycle               *)
(***************************************************************************)
Init ==
  /\ wg = InitWG0X
  /\ zero_offset = 0
  /\ halted_ = FALSE
  /\ last = NoOp
  /\ mailbox_lock_ = NoOwner
  /\ wg0x_diagnostics_lock_ = NoOwner
  /\ wg0x_collect_diagnostics_ = InitWG0XDiagnostics
  /\ wg0x_publish_diagnostics_ = InitWG0XDiagnostics
  /\ mailbox_diagnostics_ = InitMbxDiagnostics
  /\ mailbox_publish_diagnostics_ = InitMbxDiagnostics
  /\ dev = InitDevice
  /\ mbx_counter = 0
  /\ pc = [t \in Threads |-> "idle"]
  /\ loc = [t \in Threads |-> NoOp]

\* timestamps of the status frames fed to unpackState
Timestamps == {U32(0), U32(1), U32(2 * TIMESTAMP_JUMP_USEC)}
\* mode_ of the status frames
StatusModes == {MODE_OFF, {"ENABLE", "CURRENT"}, {"SAFETY_LOCKOUT"}}
Collabs == {"ok", "overheated", "model_fail"}

CyclePack ==
  \E halt \in BOOLEAN, reset \in BOOLEAN, enable \in BOOLEAN :
    pk_call(halt, reset, enable, 3, 1)

CycleUnpack ==
  \E timestamp \in Timestamps, mode \in StatusModes, collab \in Collabs :
    /\ IsDrop(wg, timestamp) => wg.drops_ < MaxCycleDrops
    /\ unpackState(timestamp, mode, collab)

NextCycle == CyclePack \/ CycleUnpack

SpecCycle == Init /\ [][NextCycle]_vars

(***************************************************************************)
(* The realtime cycle fed long runs of repeated frames                     *)
(***************************************************************************)
DropsPack == \E reset \in BOOLEAN : pk_call(FALSE, reset, TRUE, 3, 1)

DropsUnpack ==
  \E timestamp \in Timestamps, mode \in {MODE_OFF, {"SAFETY_LOCKOUT"}} :
    /\ IsDrop(wg, timestamp) => wg.drops_ < MaxDrops
    /\ unpackState(timestamp, mode, "ok")

NextDrops == DropsPack \/ DropsUnpack

SpecDrops == Init /\ [][NextDrops]_vars

(***************************************************************************)
(* The threads of one device: the realtime cycle, the diagnostics          *)
(* collector and the diagnostics publisher                                 *)
(***************************************************************************)
\* the failures counted so far
Faults ==
  mailbox_diagnostics_.read_errors_ + mailbox_diagnostics_.write_errors_
    + wg0x_collect_diagnostics_.lock_errors_

RtPack == pk_call(FALSE, FALSE, TRUE, 3, 1)

RtSetZeroOffset ==
  /\ pc["rt"] = "idle"
  /\ \E z \in (zero_offset + 1)..MaxOffset : SetZeroOffset(z)

CdCall == \E present \in BOOLEAN : cd_call(present)

CdLockError ==
  /\ Faults < MaxFaults
  /\ cd_lock_error

MbTransact ==
  \E result \in {0, -1} :
    /\ result # 0 => Faults < MaxFaults
    /\ mb_transact("collect", result)

Next ==
  \/ RtPack \/ pk_finish \/ RtSetZeroOffset
  \/ CdCall \/ cd_cmp \/ cd_cache \/ cd_lock \/ CdLockError \/ cd_update
  \/ pm_call \/ pm_lock \/ pm_copy
  \/ pg_call \/ pg_copy \/ pg_rest
  \/ mb_lock("collect") \/ MbTransact \/ mb_unlock("collect")

Spec == Init /\ [][Next]_vars

(***************************************************************************)
(* One caller of the mailbox against the device and a lossy transport      *)
(***************************************************************************)
Polls == {"ok", "fail"}

\* the caller goes on to its next call only while no call has failed
MbxUserCall ==
  /\ mbx_counter < MaxCalls
  /\ Faults = 0
  /\ \/ user_call("read", "APP_RAM", <<0>>)
     \/ \E value \in 1..MaxOffset : user_call("write", "APP_RAM", <<value>>)

MbxEcState ==
  /\ pc["user"] = "idle"
  /\ \E state \in {"PREOP", "OP"} : dev_state(state)

MbxClear == \E outcome \in Outcomes : clr_send("user", outcome)
MbxWrite == \E outcome \in Outcomes : wr_send("user", outcome)
MbxRead == \E outcome \in Outcomes : rd_send("user", outcome)
MbxWaitRead == \E poll \in Polls, timeout \in BOOLEAN : wait_rd("user", poll, timeout)
MbxWaitWrite == \E poll \in Polls, timeout \in BOOLEAN : wait_wr("user", poll, timeout)
MbxRepeatRead == \E poll \in Polls : rr_read("user", poll)
MbxRepeatWrite ==
  \E outcome \in {"ok", "lost_out", "lost_back"} : rr_write("user", outcome)
MbxRepeatPoll == \E poll \in Polls, timeout \in BOOLEAN : rr_poll("user", poll, timeout)

NextMbx ==
  \/ MbxUserCall \/ mb_lock("user") \/ mbx_enter("user")
  \/ MbxClear \/ MbxWrite \/ MbxWaitRead \/ MbxWaitWrite \/ MbxRead
  \/ MbxRepeatRead \/ MbxRepeatWrite \/ MbxRepeatPoll
  \/ mb_unlock("user")
  \/ dev_execute \/ dev_repeat_ack \/ MbxEcState

SpecMbx == Init /\ [][NextMbx]_vars

(***************************************************************************)
(* The polling loops of the SPI state machine and of the EEPROM            *)
(***************************************************************************)
\* how long the device may stay busy, and the reads that may go wrong
SpiBusy == 0..MaxBusy
SpiEvents == {0, 1, 2, SPI_CMD_TRIES - 1, SPI_CMD_TRIES, SPI_CMD_TRIES + 1}

SpiWait ==
  \E busy_for \in SpiBusy, fail_at \in SpiEvents : spi_wait(busy_for, fail_at)

SpiSend ==
  \E ready \in {waitForSpiEepromReady(0, 0), waitForSpiEepromReady(0, 1)},
     write_ok \in BOOLEAN, busy_for \in SpiBusy,
     fail_at \in SpiEvents, mismatch_at \in SpiEvents :
    spi_send(ready, write_ok, busy_for, fail_at, mismatch_at)

EepromWait ==
  \E busy_for \in SpiBusy, fail_at \in SpiEvents \cup {EEPROM_READY_TRIES} :
    eeprom_wait(busy_for, fail_at)

NextSpi == SpiWait \/ SpiSend \/ EepromWait

SpecSpi == Init /\ [][NextSpi]_vars

(***************************************************************************)
(* Reads one after another, the flush frame lost or answered in every way; *)
(* a read that gave up waiting leaves its answer in the status mailbox     *)
(***************************************************************************)
\* the caller reads again after a read that failed
ClearCall ==
  /\ mbx_counter <= MaxCalls
  /\ Faults <= MaxFaults
  /\ user_call("read", "APP_RAM", <<0>>)

NextClear ==
  \/ ClearCall \/ mb_lock("user") \/ mbx_enter("user")
  \/ MbxClear \/ wr_send("user", "ok") \/ MbxWaitRead
  \/ rd_send("user", "ok")
  \/ mb_unlock("user")
  \/ dev_execute

SpecClear == Init /\ [][NextClear]_vars

(***************************************************************************)
(* Two callers of the mailbox: the caller above and the diagnostics thread, *)
(* whose transaction is one step; every thread that can step does step      *)
(***************************************************************************)
\* the diagnostics thread calls readMailbox, once
other_call ==
  /\ pc["collect"] = "idle"
  /\ loc["collect"] = NoOp
  /\ pc' = [pc EXCEPT !["collect"] = "mb_lock"]
  /\ loc' = [loc EXCEPT !["collect"] =
                MbxCall("read", "APP_RAM", <<0>>, "user", NoOp)]
  /\ UNCHANGED <<cycleVars, diagVars, mbxVars>>

OtherTransact ==
  \/ ~verifyDeviceStateForMailboxOperation /\ mbx_enter("collect")
  \/ \E result \in {0, -1} : mb_transact("collect", result)

\* the calls of the caller: those above and a write too long for the mailbox
LockUserCall ==
  \/ MbxUserCall
  \/ /\ mbx_counter < MaxCalls
     /\ Faults = 0
     /\ user_call("write", "APP_RAM", [i \in 1..(MBX_DATA_SIZE + 1) |-> 0])

\* the transport fails a call no more than MaxFaults times
FaultAllowed(t, outcome) ==
  outcome # "ok" => (loc[t].op = "mailbox" /\ loc[t].faults < MaxFaults)

LockClear ==
  \E outcome \in Outcomes :
    FaultAllowed("user", outcome) /\ clr_send("user", outcome)
LockWrite ==
  \E outcome \in Outcomes :
    FaultAllowed("user", outcome) /\ wr_send("user", outcome)
LockRead ==
  \E outcome \in Outcomes :
    FaultAllowed("user", outcome) /\ rd_send("user", outcome)

UserSteps ==
  \/ mb_lock("user") \/ mbx_enter("user")
  \/ LockClear \/ LockWrite \/ MbxWaitRead \/ MbxWaitWrite \/ LockRead
  \/ MbxRepeatRead \/ MbxRepeatWrite \/ MbxRepeatPoll
  \/ mb_unlock("user")

OtherSteps == mb_lock("collect") \/ OtherTransact \/ mb_unlock("collect")

NextMbxLock ==
  \/ LockUserCall \/ UserSteps
  \/ other_call \/ OtherSteps
  \/ dev_execute \/ dev_repeat_ack \/ MbxEcState

\* thread t is inside a mailbox call and not blocked on the lock: one of
\* its steps can be taken
CanStep(t) ==
  \/ pc[t] \notin {"idle", "mb_lock"}
  \/ pc[t] = "mb_lock" /\ MailboxLockFree

\* CanStep is the enabledness of the steps of the two threads
CanStepIsEnabled ==
  /\ CanStep("user") <=> ENABLED <<UserSteps>>_vars
  /\ CanStep("collect") <=> ENABLED <<OtherSteps>>_vars

\* a thread inside a call is scheduled again and the waits of the mailbox
\* end with their time limit: WF_vars(UserSteps) and WF_vars(OtherSteps),
\* with the enabledness written as CanStep; a thread blocked in
\* pthread_mutex_lock is woken when the lock is released and gets it if
\* that happens often enough
SpecMbxLock ==
  /\ Init /\ [][NextMbxLock]_vars
  /\ (<>[]CanStep("user") => []<><<UserSteps>>_vars)
  /\ (<>[]CanStep("collect") => []<><<OtherSteps>>_vars)
  /\ SF_vars(mb_lock("user")) /\ SF_vars(mb_lock("collect"))

(***************************************************************************)
(* Timestamps around the rollover of the 32 bit microsecond counter        *)
(***************************************************************************)
\* 0, 1, 2, 2147000000, 4294000000 and 0xFFFFFFFF
TimePoints == {<<0, 0>>, <<0, 1>>, <<0, 2>>, <<32760, 48576>>,
               <<65521, 31616>>, <<65535, 65535>>}

\* timestampDiff as such, of new_timestamp and of new_timestamp + 2^32
ts_diff(new_timestamp, old_timestamp) ==
  /\ last' = [op |-> "timestampDiff",
              new |-> new_timestamp, old |-> old_timestamp,
              diff |-> timestampDiff(new_timestamp, old_timestamp),
              diff_wrapped |->
                timestampDiff(ToU32(<<1, new_timestamp[1], new_timestamp[2]>>),
                              old_timestamp)]
  /\ UNCHANGED <<wg, zero_offset, halted_, diagVars, mbxVars, pc, loc>>

TimeDiff ==
  \E new_timestamp \in TimePoints, old_timestamp \in TimePoints :
    ts_diff(new_timestamp, old_timestamp)

\* the device's counter has gone on by less than 2^31 microseconds since
\* the frame before
TimeUnpack ==
  \E timestamp \in TimePoints :
    /\ wg.sample_timestamp_.sec < MaxSeconds
    /\ timestamp # wg.last_timestamp_
    /\ TimestampSub(timestamp, wg.last_timestamp_)[1] < Pow2_16 \div 2
    /\ unpackState(timestamp, {"ENABLE", "CURRENT"}, "ok")

NextTime == TimeDiff \/ TimeUnpack

SpecTime == Init /\ [][NextTime]_vars

(***************************************************************************)
(* The frame builders and packCommand applied to bounded inputs            *)
(***************************************************************************)
ByteSamples == {0, 66, 255}
BuildAddresses == {258, 65535}
BuildLengths == 0..MaxLen \cup {MBX_SIZE}
\* header lengths on both sides of the two limits
BuildHdrLengths ==
  BuildLengths \cup {MBX_DATA_SIZE, MBX_DATA_SIZE + 1, MBX_SIZE - 1}
BuildSeqnums == {1, 255}
BuildData(length) == IF length > MaxLen THEN {<<>>}
                     ELSE [1..length -> {0, 255}]
\* what the object held before the call: zeros, or whatever the stack held
\* (the command objects of readMailbox_ and writeMailbox_ are not cleared)
BuildBeforeHdr == {<<0, 0, 0, 0, 0, 0>>, <<255, 255, 255, 255, 255, 255>>}
BuildBefore ==
  {[hdr |-> <<0, 0, 0, 0, 0, 0>>, data |-> <<0, 0>>],
   [hdr |-> <<255, 255, 255, 255, 255, 255>>, data |-> <<255, 255>>]}

BuildHdr ==
  \E before \in BuildBeforeHdr, address \in BuildAddresses,
     length \in BuildHdrLengths, type \in MbxCmdTypes, seqnum \in BuildSeqnums :
    hdr_build(before, address, length, type, seqnum)

BuildCmd ==
  \E before \in BuildBefore, address \in BuildAddresses,
     length \in BuildLengths, type \in MbxCmdTypes, seqnum \in BuildSeqnums,
     has_data \in BOOLEAN :
    \E data \in BuildData(length) :
      cmd_build(before, address, length, type, seqnum, has_data, data)

BuildPack ==
  \E halt \in BOOLEAN, reset \in BOOLEAN, enable \in BOOLEAN,
     effort \in {-3, 0, 1, 3}, digital_out \in {0, 1} :
    pk_call(halt, reset, enable, effort, digital_out)

NextBuild == BuildHdr \/ BuildCmd \/ BuildPack

SpecBuild == Init /\ [][NextBuild]_vars

(***************************************************************************)
(* A caller that only writes, one call after the other                     *)
(***************************************************************************)
MbxWriteCall ==
  /\ mbx_counter < MaxCalls + 1
  /\ Faults = 0
  /\ \E value \in 1..MaxOffset : user_call("write", "APP_RAM", <<value>>)

NextMbxWrite ==
  \/ MbxWriteCall \/ mb_lock("user") \/ mbx_enter("user")
  \/ MbxWrite \/ MbxWaitWrite
  \/ mb_unlock("user")
  \/ dev_execute

SpecMbxWrite == Init /\ [][NextMbxWrite]_vars

(***************************************************************************)
(* A caller that reads, against a device that may also reset internally   *)
(***************************************************************************)
MbxReadCall ==
  /\ mbx_counter < MaxCalls
  /\ Faults = 0
  /\ user_call("read", "APP_RAM", <<0>>)

NextMbxReset ==
  \/ MbxReadCall \/ mb_lock("user") \/ mbx_enter("user")
  \/ MbxClear \/ MbxWrite \/ MbxWaitRead \/ MbxRead
  \/ MbxRepeatRead \/ MbxRepeatWrite \/ MbxRepeatPoll
  \/ mb_unlock("user")
  \/ dev_execute \/ dev_repeat_ack \/ dev_reset

SpecMbxReset == Init /\ [][NextMbxReset]_vars

(***************************************************************************)
(* A write of N bytes and a read of the same N bytes, no frame lost and    *)
(* the device taking its commands within the waits                         *)
(***************************************************************************)
\* lengths up to the limit of a write, and one above it
TripLengths == (1..MaxLen) \cup {MBX_DATA_SIZE, MBX_DATA_SIZE + 1}

TripData(length) ==
  IF length <= MaxLen THEN [1..length -> ByteSamples]
  ELSE {[i \in 1..length |-> 255], [i \in 1..length |-> (3 * i) % 256]}

\* writeMailbox(com, address, data, length)
trip_write(address, data) ==
  /\ loc["user"] = NoOp
  /\ user_call("write", address, data)

\* readMailbox(com, address, buffer, length) after the write has returned,
\* with the same address and length; the caller keeps what it has written
trip_read ==
  /\ pc["user"] = "idle"
  /\ loc["user"].op = "mailbox" /\ loc["user"].kind = "write"
  /\ LET w == loc["user"]
     IN  /\ pc' = [pc EXCEPT !["user"] = "mb_lock"]
         /\ loc' = [loc EXCEPT !["user"] =
                      MbxCall("read", w.address,
                              [i \in 1..Len(w.value) |-> 0], "user",
                              [op |-> "written", data |-> w.value,
                               result |-> w.result])]
  /\ UNCHANGED <<cycleVars, diagVars, mbxVars>>

TripWrite ==
  \E address \in {"APP_RAM"}, length \in TripLengths :
    \E data \in TripData(length) : trip_write(address, data)

NextTrip ==
  \/ TripWrite \/ trip_read
  \/ mb_lock("user") \/ mbx_enter("user")
  \/ clr_send("user", "ok") \/ wr_send("user", "ok")
  \/ wait_rd("user", "ok", FALSE) \/ wait_wr("user", "ok", FALSE)
  \/ rd_send("user", "ok")
  \/ mb_unlock("user")
  \/ dev_execute

SpecTrip == Init /\ [][NextTrip]_vars

(***************************************************************************)
(* Pages of the EEPROM written and read back                               *)
(***************************************************************************)
\* page and length of a call: the first page with lengths up to the
\* largest, a length above it, and a page the EEPROM does not have
EepromWriteArgs ==
  {<<0, 1>>, <<0, MAX_EEPROM_PAGE_SIZE - 1>>, <<0, MAX_EEPROM_PAGE_SIZE>>,
   <<0, MAX_EEPROM_PAGE_SIZE + 1>>, <<NUM_EEPROM_PAGES, 1>>}
EepromReadArgs ==
  {<<0, 256>>, <<0, MAX_EEPROM_PAGE_SIZE>>, <<0, MAX_EEPROM_PAGE_SIZE + 1>>,
   <<NUM_EEPROM_PAGES, MAX_EEPROM_PAGE_SIZE>>}
\* how many status reads find the EEPROM busy and which of them fails
EepromReadies ==
  {<<0, 0>>, <<EEPROM_READY_TRIES - 1, 0>>, <<EEPROM_READY_TRIES, 0>>,
   <<2, 2>>}
EepromData(length) == [i \in 1..length |-> (5 * i) % 256]
EepromInfos ==
  {[i \in 1..MAX_EEPROM_PAGE_SIZE |-> 0],
   [i \in 1..MAX_EEPROM_PAGE_SIZE |-> (7 * i) % 256]}

\* a page is written while the EEPROM is blank
EepromWrite ==
  \E args \in EepromWriteArgs, fail \in EepromWriteFails,
     ready \in EepromReadies :
    /\ last.op # "readEepromPage"
    /\ \A page \in EepromPages : dev.eeprom[page] = <<>>
    /\ writeEepromPage(args[1], EepromData(args[2]), args[2], fail,
                       ready[1], ready[2])

\* and read once
EepromRead ==
  \E args \in EepromReadArgs, info \in EepromInfos, fail \in EepromReadFails :
    /\ last.op # "readEepromPage"
    /\ readEepromPage(args[1], args[2], info, fail)

NextEeprom == dev_fit \/ EepromWrite \/ EepromRead

SpecEeprom == Init /\ [][NextEeprom]_vars

(***************************************************************************)
(* The CRCs of an actuator info record: a record is filled, given its CRCs *)
(* by generateCRC (or by old software), has one byte changed on the way,   *)
(* and is verified                                                         *)
(***************************************************************************)
InfoContents ==
  { [i \in 0..(sizeof_WG0XActuatorInfo - 1) |-> 0],
    [i \in 0..(sizeof_WG0XActuatorInfo - 1) |-> 255],
    [i \in 0..(sizeof_WG0XActuatorInfo - 1) |-> (7 * i + 1) % 256] }

\* bytes that get changed: in the part both CRCs cover, in crc32_256_, in
\* the four bytes after it, and in crc32_264_
ChangedBytes == {0, 100, 251, 252, 255, 256, 259, 260, 263}
NoChange == -1

info_fill(info) ==
  /\ last = NoOp
  /\ last' = [op |-> "WG0XActuatorInfo", info |-> info, crc |-> "none",
              changed |-> NoChange]
  /\ UNCHANGED <<wg, zero_offset, halted_, mbxVars, diagVars, pc, loc>>

info_generateCRC ==
  /\ last.op = "WG0XActuatorInfo"
  /\ last' = [last EXCEPT !.op = "generateCRC", !.crc = "generateCRC",
                          !.info = generateCRC(last.info)]
  /\ UNCHANGED <<wg, zero_offset, halted_, mbxVars, diagVars, pc, loc>>

info_only264 ==
  /\ last.op = "WG0XActuatorInfo"
  /\ last' = [last EXCEPT !.op = "only264", !.crc = "only264",
                          !.info = Only264(last.info)]
  /\ UNCHANGED <<wg, zero_offset, halted_, mbxVars, diagVars, pc, loc>>

\* one byte of a record with CRCs gets another value
info_change(index, flip) ==
  /\ last.op = "generateCRC"
  /\ last' = [last EXCEPT !.op = "change", !.changed = index,
                          !.info[index] = (@ + flip) % 256]
  /\ UNCHANGED <<wg, zero_offset, halted_, mbxVars, diagVars, pc, loc>>

info_verifyCRC ==
  /\ last.op \in {"WG0XActuatorInfo", "generateCRC", "only264", "change"}
  /\ last' = [op |-> "verifyCRC", info |-> last.info, crc |-> last.crc,
              changed |-> last.changed, result |-> verifyCRC(last.info)]
  /\ UNCHANGED <<wg, zero_offset, halted_, mbxVars, diagVars, pc, loc>>

InfoFill == \E info \in InfoContents : info_fill(info)

InfoChange ==
  \E index \in ChangedBytes, flip \in {1, 128} : info_change(index, flip)

NextInfo ==
  InfoFill \/ info_generateCRC \/ info_only264 \/ InfoChange \/ info_verifyCRC

SpecInfo == Init /\ [][NextInfo]_vars

(***************************************************************************)
(* WG0XDiagnostics::update on its own: the device's 8 bit counters go on   *)
(* between two collections and the lifetime totals follow them             *)
(***************************************************************************)
CounterNames ==
  {"safety_disable_count_", "undervoltage_count_", "over_current_count_",
   "board_over_temp_count_", "bridge_over_temp_count_",
   "operate_disable_count_", "watchdog_disable_count_"}

\* the 8 bit counter of the record collected last
CountOf(dg, counter) ==
  IF counter = "safety_disable_count_"
  THEN dg.safety_disable_status_.safety_disable_count_
  ELSE dg.diagnostics_info_[counter]

\* the lifetime total that belongs to a counter
TotalOf(dg, counter) ==
  CASE counter = "safety_disable_count_"   -> dg.safety_disable_total_
    [] counter = "undervoltage_count_"     -> dg.undervoltage_total_
    [] counter = "over_current_count_"     -> dg.over_current_total_
    [] counter = "board_over_temp_count_"  -> dg.board_over_temp_total_
    [] counter = "bridge_over_temp_count_" -> dg.bridge_over_temp_total_
    [] counter = "operate_disable_count_"  -> dg.operate_disable_total_
    [] counter = "watchdog_disable_count_" -> dg.watchdog_disable_total_

\* events counted by the device between two collections: 250 in one go, or
\* 9 that take a counter standing at 250 or more past 255
EventCounts == {9, 250}

\* the device has counted `events' more events of one kind; the new status
\* and counters are handed to update
diag_update(counter, events) ==
  LET dg     == wg0x_collect_diagnostics_
      new    == (CountOf(dg, counter) + events) % 256
      s      == IF counter = "safety_disable_count_" THEN new
                ELSE dg.safety_disable_status_.safety_disable_count_
      di     == IF counter = "safety_disable_count_" THEN dg.diagnostics_info_
                ELSE [dg.diagnostics_info_ EXCEPT ![counter] = new]
  IN  /\ TotalOf(dg, counter) + events <= MaxTotal
      /\ events = 9 => CountOf(dg, counter) >= 250
      /\ wg0x_collect_diagnostics_' = update(dg, s, di)
      /\ last' = [op |-> "update", counter |-> counter, events |-> events,
                  old |-> CountOf(dg, counter), new |-> new]
      /\ UNCHANGED <<wg, zero_offset, halted_, mbxVars, wg0x_diagnostics_lock_,
                     wg0x_publish_diagnostics_, pc, loc>>

DiagUpdate ==
  \E counter \in CounterNames, events \in EventCounts :
    diag_update(counter, events)

NextUpdate == DiagUpdate

SpecUpdate == Init /\ [][NextUpdate]_vars

(***************************************************************************)
(* Polls of collectDiagnostics against a device whose counters go on       *)
(***************************************************************************)
\* the device counts `events` safety disables in one of its two records,
\* the few ones only where they take the counter round; it is polled before
\* the same record counts again
dev_count(address, events) ==
  LET dg     == wg0x_collect_diagnostics_
      cached == IF address = "SAFETY_STATUS"
                THEN dg.safety_disable_status_.safety_disable_count_
                ELSE dg.diagnostics_info_.undervoltage_count_
      total  == IF address = "SAFETY_STATUS" THEN dg.safety_disable_total_
                ELSE dg.undervoltage_total_
  IN  /\ dev.bus[address] = <<cached>>
      /\ total + events <= MaxTotal
      /\ events = 9 => cached >= 250
      /\ dev' = [dev EXCEPT !.bus[address] = <<(cached + events) % 256>>]
      /\ UNCHANGED <<cycleVars, diagVars, mailbox_lock_, mailbox_diagnostics_,
                     mailbox_publish_diagnostics_, mbx_counter, pc, loc>>

DevCount ==
  \E address \in {"SAFETY_STATUS", "DIAG_INFO"}, events \in EventCounts :
    dev_count(address, events)

NextCollect ==
  \/ CdCall \/ cd_cmp \/ cd_lock \/ CdLockError \/ cd_update
  \/ mb_lock("collect") \/ MbTransact \/ mb_unlock("collect")
  \/ DevCount

SpecCollect == Init /\ [][NextCollect]_vars


(***************************************************************************)
(* The realtime cycle next to the publisher: what the device holds in its  *)
(* safety status reaches the publisher through a poll of the collector     *)
(***************************************************************************)
\* a poll of collectDiagnostics that went through, as the other threads see
\* it (they only try the lock): valid_ = success and update(s, di), where
\* safety_disable_status_ = new_status brings the hold bits of the device
diag_collect(hold) ==
  /\ pc["collect"] = "idle"
  /\ wg0x_diagnostics_lock_ = NoOwner
  /\ LET dg == [wg0x_collect_diagnostics_ EXCEPT !.valid_ = TRUE]
         s  == dg.safety_disable_status_.safety_disable_count_
     IN  wg0x_collect_diagnostics_' =
           [update(dg, s, dg.diagnostics_info_) EXCEPT
              !.safety_disable_status_.safety_disable_status_hold_ = hold]
  /\ UNCHANGED <<cycleVars, wg0x_diagnostics_lock_,
                 wg0x_publish_diagnostics_, mbxVars, pc, loc>>

\* safety_disable_status_hold_ of the device: nothing held, or the
\* SAFETY_OPERATIONAL bit
HoldBits == {{}, {"OPERATIONAL"}}

FpgaCollect == \E hold \in HoldBits : diag_collect(hold)

FpgaUnpack ==
  \E timestamp \in Timestamps :
    /\ IsDrop(wg, timestamp) => wg.drops_ < MaxCycleDrops
    /\ unpackState(timestamp, MODE_OFF, "ok")

NextFpga ==
  \/ DropsPack \/ FpgaUnpack
  \/ FpgaCollect
  \/ pg_call \/ pg_copy \/ pg_rest

SpecFpga == Init /\ [][NextFpga]_vars

(***************************************************************************)
(* The calibration offset on its way to the device: initialize, the        *)
(* controller, the realtime cycle that hands the offset over and the       *)
(* collector that writes it to the application RAM                         *)
(***************************************************************************)
\* nothing has run since construction
JustConstructed ==
  /\ wg = InitWG0X /\ zero_offset = 0 /\ last = NoOp
  /\ wg0x_collect_diagnostics_ = InitWG0XDiagnostics
  /\ mailbox_diagnostics_ = InitMbxDiagnostics
  /\ \A t \in Threads : pc[t] = "idle"

\* the application RAM holds the offset that an earlier run stored in it
dev_stored(z) ==
  /\ JustConstructed
  /\ dev.bus["APP_RAM"] = <<0>>
  /\ dev' = [dev EXCEPT !.bus["APP_RAM"] = <<z>>]
  /\ UNCHANGED <<cycleVars, diagVars, mailbox_lock_, mailbox_diagnostics_,
                 mailbox_publish_diagnostics_, mbx_counter, pc, loc>>

\* faulty variant: initialize gives the offset it read to the collector's
\* record as well
initialize_SeedsCollector(read_ok) ==
  /\ JustConstructed
  /\ wg.app_ram_status_ = "APP_RAM_PRESENT"
  /\ read_ok
  /\ LET z == dev.bus["APP_RAM"][1]
     IN  /\ zero_offset' = z
         /\ wg' = [wg EXCEPT !.cached_zero_offset_ = z,
                             !.calibration_status_ = "SAVED_CALIBRATION"]
         /\ wg0x_collect_diagnostics_' =
              [wg0x_collect_diagnostics_ EXCEPT !.zero_offset_ = z,
                                                !.cached_zero_offset_ = z]
  /\ UNCHANGED <<halted_, last, wg0x_diagnostics_lock_,
                 wg0x_publish_diagnostics_, mbxVars, pc, loc>>

\* initialize, the part that reads the application RAM, before any thread
\* runs: if (readAppRam(&com, zero_offset)) the offset is given to the
\* actuator state and to cached_zero_offset_; read_ok tells whether
\* readAppRam found a good record
initialize(read_ok) ==
  /\ JustConstructed
  /\ wg.app_ram_status_ = "APP_RAM_PRESENT"
  /\ read_ok
  /\ LET z == dev.bus["APP_RAM"][1]
     IN  /\ zero_offset' = z
         /\ wg' = [wg EXCEPT !.cached_zero_offset_ = z,
                             !.calibration_status_ = "SAVED_CALIBRATION"]
  /\ UNCHANGED <<halted_, last, diagVars, mbxVars, pc, loc>>

OffsetStored == \E z \in 1..MaxOffset : dev_stored(z)

OffsetInitialize == \E read_ok \in BOOLEAN : initialize(read_ok)

\* the controller sets the offset to any value, any number of times
OffsetSet ==
  /\ pc["rt"] = "idle"
  /\ \E z \in 0..MaxOffset : SetZeroOffset(z)

CollectSteps ==
  \/ cd_call(TRUE) \/ cd_cmp \/ cd_cache \/ cd_lock \/ cd_update
  \/ mb_lock("collect") \/ MbTransact \/ mb_unlock("collect")

NextOffset ==
  \/ OffsetStored \/ OffsetInitialize \/ OffsetSet
  \/ RtPack \/ pk_finish
  \/ CollectSteps

\* the realtime cycle can hand the offset over
CanHandOver ==
  /\ pc["rt"] = "idle"
  /\ zero_offset # wg.cached_zero_offset_
  /\ wg0x_diagnostics_lock_ = NoOwner

\* the collector is not waiting for the diagnostics lock
CanCollect == pc["collect"] = "cd_end" => wg0x_diagnostics_lock_ = NoOwner

\* both contexts are scheduled again and again: the cycle gets the lock at
\* some try if it is free again and again, the collector goes on whenever
\* it can; mailbox calls fail only while the error counters are below
\* MaxFaults
SpecOffset ==
  /\ Init /\ [][NextOffset]_vars
  /\ ([]<>CanHandOver => []<><<RtPack>>_vars)
  /\ (<>[](pc["rt"] = "pk_locked") => []<><<pk_finish>>_vars)
  /\ SF_vars(mb_lock("collect"))
  /\ (<>[]CanCollect => []<><<CollectSteps>>_vars)

(***************************************************************************)
(* A header is built and then verified                                     *)
(***************************************************************************)
VerifyBuild ==
  /\ last = NoOp
  /\ \E before \in BuildBeforeHdr, address \in BuildAddresses,
        length \in BuildLengths, type \in MbxCmdTypes,
        seqnum \in BuildSeqnums :
       hdr_build(before, address, length, type, seqnum)

VerifyHdr == \E flip \in 0..6 : hdr_verifyChecksum(flip)

NextVerify == VerifyBuild \/ VerifyHdr

SpecVerify == Init /\ [][NextVerify]_vars

(***************************************************************************)
(* One mailbox call to its end: the transport loses or spoils any frame,   *)
(* the device answers or stays silent; the caller is scheduled and the     *)
(* clock of the waits goes on                                              *)
(***************************************************************************)
\* the caller makes one call, a read or a write
TermCall ==
  /\ loc["user"] = NoOp
  /\ \/ user_call("read", "APP_RAM", <<0>>)
     \/ user_call("write", "APP_RAM", <<1>>)

TermSteps ==
  \/ mb_lock("user") \/ mbx_enter("user")
  \/ MbxClear \/ MbxWrite \/ MbxWaitRead \/ MbxWaitWrite \/ MbxRead
  \/ MbxRepeatRead \/ MbxRepeatWrite \/ MbxRepeatPoll
  \/ mb_unlock("user")

NextTerm == TermCall \/ TermSteps \/ dev_execute \/ dev_repeat_ack

\* the loops that end with the time limit MAX_WAIT_TIME_MS
WaitPcs == {"wait_rd", "wait_wr", "rr_poll"}

\* a wait is left
WaitEnds == pc["user"] \in WaitPcs /\ pc'["user"] # pc["user"]

\* the caller is scheduled whenever it can step (it is alone, so the lock
\* is free for it); CLOCK_MONOTONIC goes on while a wait polls, each poll
\* sleeps 100 us, so a wait that is not left otherwise meets its time limit
SpecTerm ==
  /\ Init /\ [][NextTerm]_vars
  /\ (<>[]CanStep("user") => []<><<TermSteps>>_vars)
  /\ (<>[](pc["user"] \in WaitPcs) => []<><<WaitEnds>>_vars)
  /\ SF_vars(mb_lock("user"))

(***************************************************************************)
(* Two threads write a page of the EEPROM of the same device               *)
(***************************************************************************)
\* the SPI state machine carries out the command written to its register;
\* it is taken to be done before the host reads the register again
DevSpiExec(d, bytes) ==
  LET page == bytes[1] + 256 * (bytes[2] % 16)
      d1 == CASE SpiOperation(bytes) = 0 -> DevSpiWrite(d, page)
              [] SpiOperation(bytes) = 1 -> DevSpiRead(d, page)
              [] OTHER -> DevSpiStatus(d)
  IN  [d1 EXCEPT !.bus["SPI_COMMAND"] = [bytes EXCEPT ![3] = 0]]

\* thread t calls writeEepromPage(com, page, data, length)
ee_call(t, page, data) ==
  /\ pc[t] = "idle"
  /\ loc[t] = NoOp
  /\ Len(data) <= MAX_EEPROM_PAGE_SIZE /\ page < NUM_EEPROM_PAGES
  /\ MbxStep(t, EeCall(EeLocals(page, data)))
  /\ UNCHANGED <<cycleVars, diagVars, mbxVars>>

\* readMailbox_ / writeMailbox_ of a call of writeEepromPage, as its caller
\* sees it, and what the device does with a command written to the register
\* of the SPI state machine
spi_transact(t, result) ==
  /\ pc[t] = "mb_in"
  /\ verifyDeviceStateForMailboxOperation
  /\ LET l == loc[t]
     IN  /\ MbxStep(t, Finish([l EXCEPT !.data =
                                  IF l.kind = "read" /\ result = 0
                                  THEN ReadBytes(dev.bus[l.address],
                                                 Len(l.value))
                                  ELSE <<>>],
                              result))
         /\ dev' = IF l.kind = "write" /\ result = 0
                   THEN IF l.address = "SPI_COMMAND"
                        THEN DevSpiExec(dev, l.value)
                        ELSE DevBusWrite(dev, l.address, l.value)
                   ELSE dev
  /\ UNCHANGED <<cycleVars, diagVars, mailbox_lock_, mailbox_diagnostics_,
                 mailbox_publish_diagnostics_, mbx_counter>>

\* the two threads and the pages they write
EeThreads == {"user", "collect"}
EeData(t) == IF t = "user" THEN <<1>> ELSE <<2>>

PageCall == \E t \in EeThreads : ee_call(t, 0, EeData(t))
PageLock == \E t \in EeThreads : mb_lock(t)
PageTransact ==
  \E t \in EeThreads, result \in {0, -1} :
    /\ result # 0 => Faults < MaxFaults
    /\ spi_transact(t, result)
PageUnlock == \E t \in EeThreads : mb_unlock(t)

NextPage == PageCall \/ PageLock \/ PageTransact \/ PageUnlock

SpecPage == Init /\ [][NextPage]_vars

(***************************************************************************)
(* Steps named in the properties                                           *)
(***************************************************************************)
\* some call of packCommand with reset = true
PackResetStep ==
  \E halt \in BOOLEAN, enable \in BOOLEAN : pk_call(halt, TRUE, enable, 3, 1)

\* some call of unpackState
UnpackStep ==
  \E timestamp \in Timestamps, mode \in StatusModes, collab \in Collabs :
    unpackState(timestamp, mode, collab)

(***************************************************************************)
(* Properties of the realtime cycle                                        *)
(***************************************************************************)
\* C2: a command packed with reset = false while has_error_ is set has mode
\* MODE_OFF whatever enable and effort are, and a command packed with
\* halt = true has neither MODE_ENABLE nor MODE_CURRENT
C2_ModeOffWhenLatchedOrHalted ==
  last.op = "packCommand" =>
    /\ (~last.reset /\ last.pre_error) => BufferMode(last.buffer) = MODE_OFF
    /\ last.halt => BufferMode(last.buffer) \cap {"ENABLE", "CURRENT"} = {}

C2_Witness ==
  /\ last.op = "packCommand"
  /\ ~last.reset /\ last.pre_error /\ last.enable /\ ~last.halt
  /\ BufferMode(last.buffer) = MODE_OFF

\* C3: a verifyState that returns false leaves has_error_ set, and the only
\* step that takes has_error_ from true to false is packCommand with
\* reset = true
C3_ErrorLatchSticky ==
  [][ /\ (last'.op = "unpackState" /\ ~last'.rv /\ UnpackStep)
           => wg'.has_error_
      /\ (wg.has_error_ /\ ~wg'.has_error_) => PackResetStep ]_vars

\* a healthy frame was verified (true) while the latch was and stays set
C3_Witness ==
  /\ last.op = "unpackState" /\ last.rv /\ last.pre_error
  /\ wg.has_error_

\* C8: counting from consecutive_drops_ = 0, the k-th consecutive repeated
\* frame causes no drop failure and leaves too_many_dropped_packets_ as it
\* was for k <= 10, and sets it with return value false at k = 11; the flag
\* is cleared only by packCommand with reset = true
C8_DropFailureAtEleven ==
  [][ /\ (last'.op = "unpackState" /\ last'.drop /\ UnpackStep) =>
           /\ wg'.consecutive_drops_ <= MAX_CONSECUTIVE_DROPS =>
                /\ last'.why # "drops"
                /\ wg'.too_many_dropped_packets_ = wg.too_many_dropped_packets_
           /\ wg'.consecutive_drops_ = MAX_CONSECUTIVE_DROPS + 1 =>
                /\ wg'.too_many_dropped_packets_
                /\ ~last'.rv /\ last'.why = "drops"
      /\ (wg.too_many_dropped_packets_ /\ ~wg'.too_many_dropped_packets_)
           => PackResetStep ]_vars

C8_Witness ==
  /\ last.op = "unpackState" /\ last.drop
  /\ wg.consecutive_drops_ = MAX_CONSECUTIVE_DROPS + 1
  /\ wg.max_consecutive_drops_ = MAX_CONSECUTIVE_DROPS + 1
  /\ wg.too_many_dropped_packets_ /\ ~last.rv /\ last.why = "drops"

\* C9: a frame with MODE_SAFETY_LOCKOUT and a timestamp jump, verified while
\* resetting_ is false and the drop limit is not passed, returns false for
\* the lockout: in_lockout_ is set, the jump only sets
\* timestamp_jump_detected_, and too_many_dropped_packets_ is not touched
C9_LockoutDecidesNotJump ==
  [][ (/\ last'.op = "unpackState" /\ last'.lockout /\ last'.jump
       /\ UnpackStep
       /\ ~wg.resetting_
       /\ wg'.consecutive_drops_ <= MAX_CONSECUTIVE_DROPS) =>
        /\ ~last'.rv /\ last'.why = "lockout"
        /\ wg'.in_lockout_ /\ wg'.has_error_
        /\ wg'.timestamp_jump_detected_
        /\ wg'.too_many_dropped_packets_ = wg.too_many_dropped_packets_ ]_vars

C9_Witness ==
  /\ last.op = "unpackState" /\ last.lockout /\ last.jump
  /\ ~last.pre_error /\ ~wg.resetting_
  /\ ~last.rv /\ last.why = "lockout"
  /\ wg.in_lockout_ /\ wg.timestamp_jump_detected_
  /\ ~wg.too_many_dropped_packets_

(***************************************************************************)
(* Properties of the threads and their two locks                           *)
(***************************************************************************)
\* some call of packCommand
PkStep ==
  \E halt \in BOOLEAN, reset \in BOOLEAN, enable \in BOOLEAN :
    pk_call(halt, reset, enable, 3, 1)

\* t is between a lockMailbox() that went through and the unlockMailbox()
InMailbox(t) ==
  pc[t] \in {"mb_in", "clr", "wr", "wait_rd", "wait_wr", "rd", "rr_read",
             "rr_write", "rr_poll", "mb_unlock", "pm_copy"}

\* t is blocked in, or about to call, pthread_mutex_lock
AcquiringMailbox(t) == pc[t] \in {"mb_lock", "pm_lock"}
AcquiringDiagnostics(t) == pc[t] = "cd_end"

\* C1: at most one thread at a time is between a lockMailbox() that went
\* through and the matching unlockMailbox(), and it is the owner of
\* mailbox_lock_
C1_MailboxMutualExclusion ==
  \A t1 \in Threads :
    InMailbox(t1) =>
      /\ mailbox_lock_ = t1
      /\ \A t2 \in Threads : InMailbox(t2) => t2 = t1

\* one thread is inside a mailbox transaction while another waits for the
\* mailbox lock
C1_Witness ==
  \E t1 \in Threads, t2 \in Threads :
    /\ t1 # t2
    /\ pc[t1] \in {"mb_in", "mb_unlock"}
    /\ AcquiringMailbox(t2)

\* C5: a packCommand that finds wg0x_diagnostics_lock_ held by another
\* context returns in that call with a checksummed command and leaves
\* cached_zero_offset_, calibration_status_ and the shared zero_offset_ as
\* they are; a packCommand that finds the lock free while the zero offset
\* differs from cached_zero_offset_ hands the offset over
C5_TryLockNeverStalls ==
  [][ /\ (/\ zero_offset # wg.cached_zero_offset_
          /\ wg0x_diagnostics_lock_ # NoOwner
          /\ PkStep) =>
            /\ pc'["rt"] = "idle"
            /\ last'.op = "packCommand" /\ last'.busy
            /\ computeChecksum(last'.buffer) = 0
            /\ wg'.cached_zero_offset_ = wg.cached_zero_offset_
            /\ wg'.calibration_status_ = wg.calibration_status_
            /\ wg0x_collect_diagnostics_' = wg0x_collect_diagnostics_
            /\ wg0x_diagnostics_lock_' = wg0x_diagnostics_lock_
            /\ zero_offset' # wg'.cached_zero_offset_
      /\ (/\ zero_offset # wg.cached_zero_offset_
          /\ wg0x_diagnostics_lock_ = NoOwner
          /\ PkStep) =>
            /\ wg0x_diagnostics_lock_' = "rt"
            /\ wg'.cached_zero_offset_ = zero_offset
            /\ wg0x_collect_diagnostics_'.zero_offset_ = zero_offset ]_vars

\* packCommand has returned with the hand-off still to do, the lock being
\* held by another context
C5_Witness ==
  /\ last.op = "packCommand" /\ last.busy
  /\ pc["rt"] = "idle"
  /\ wg0x_diagnostics_lock_ \in {"collect", "publish"}
  /\ zero_offset # wg.cached_zero_offset_
  /\ wg0x_collect_diagnostics_.zero_offset_ # zero_offset

\* C6: no thread holds mailbox_lock_ and wg0x_diagnostics_lock_ together,
\* none acquires one of them while it holds the other, and the holder of a
\* lock another thread waits for is never itself waiting for a lock
C6_LocksNeverNested ==
  \A t \in Threads :
    /\ ~(mailbox_lock_ = t /\ wg0x_diagnostics_lock_ = t)
    /\ AcquiringMailbox(t) => wg0x_diagnostics_lock_ # t
    /\ AcquiringDiagnostics(t) => mailbox_lock_ # t
    /\ pc[t] = "idle" => (mailbox_lock_ # t /\ wg0x_diagnostics_lock_ # t)
    /\ (AcquiringMailbox(t) \/ AcquiringDiagnostics(t)) =>
         \A u \in Threads :
           (mailbox_lock_ = u \/ wg0x_diagnostics_lock_ = u) =>
             ~(AcquiringMailbox(u) \/ AcquiringDiagnostics(u))

\* both locks are held, by different threads, while a third thread is at
\* work
C6_Witness ==
  /\ mailbox_lock_ = "collect"
  /\ wg0x_diagnostics_lock_ = "publish"
  /\ pc["rt"] = "idle"

\* the marks collectDiagnostics leaves after a failed lockWG0XDiagnostics()
StaleMarks(dg) ==
  [dg EXCEPT !.valid_ = FALSE, !.first_ = FALSE,
             !.lock_errors_ = dg.lock_errors_ + 1]

\* C7 as the specification states it: every step that writes
\* wg0x_collect_diagnostics_ is taken by the holder of
\* wg0x_diagnostics_lock_, but for the marks left after a failed blocking
\* acquire
C7_SharedRecordOnlyUnderLock ==
  [][ wg0x_collect_diagnostics_' # wg0x_collect_diagnostics_ =>
        \/ \E t \in Threads :
             /\ pc'[t] # pc[t]
             /\ wg0x_diagnostics_lock_ = t \/ wg0x_diagnostics_lock_' = t
        \/ wg0x_collect_diagnostics_' = StaleMarks(wg0x_collect_diagnostics_)
    ]_vars

(***************************************************************************)
(* Properties of the mailbox transaction                                   *)
(***************************************************************************)
\* the caller's mailbox call has returned
Returned == pc["user"] = "idle" /\ loc["user"].op = "mailbox"

\* C4 as the specification states it: a readMailbox or writeMailbox made
\* while the device is in neither SAFEOP nor OP returns non-zero and has
\* sent nothing
C4_FailsOutsideOperationalState ==
  (Returned /\ loc["user"].bad_state) =>
    /\ loc["user"].result # 0
    /\ loc["user"].sends = 0

\* C10: a readMailbox whose only transport fault was the loss of the reply
\* to a status mailbox read that the device had served, and whose re-sent
\* read came back with working counter 0, toggles repeat_request once, is
\* acknowledged, reads again and returns success with the response the
\* device had posted; the read command was sent once
C10_RepeatRequestRecovers ==
  (/\ Returned
   /\ loc["user"].kind = "read"
   /\ loc["user"].lost_reply
   /\ loc["user"].refused_resend
   /\ loc["user"].faults = 1) =>
     /\ loc["user"].result = 0
     /\ loc["user"].data = SubSeq(dev.status, 1, 1)
     /\ loc["user"].toggles = 1
     /\ loc["user"].sends = 1
     /\ loc["user"].tries = 1
     /\ dev.repeat_request = dev.repeat_ack
     /\ dev.repeat_request # loc["user"].orig_request

C10_Witness ==
  /\ Returned
  /\ loc["user"].kind = "read"
  /\ loc["user"].lost_reply /\ loc["user"].refused_resend
  /\ loc["user"].faults = 1
  /\ loc["user"].result = 0 /\ loc["user"].toggles = 1
  /\ mailbox_diagnostics_.retries_ = 1
  /\ mailbox_diagnostics_.read_errors_ = 0

\* C11: in readMailboxInternal a read that comes back with working counter
\* 0 fails at once, with no repeat request, when no packet was dropped
\* before it, and goes to the repeat request when one was; after an
\* acknowledged repeat request the read is attempted again, and no call
\* makes more than MAX_TRIES attempts; working counter 1 is success, and a
\* working counter above 1 or differing counters fail
C11_ReadWorkingCounter ==
  [][ /\ pc["user"] = "rd" =>
           /\ loc["user"].tries < MAX_TRIES
           /\ \A outcome \in Outcomes :
                rd_send("user", outcome) =>
                  LET l == loc["user"]
                      wkc == DevReadStatus(dev).wkc
                      failed == /\ pc'["user"] = "mb_unlock"
                                /\ loc'["user"].result = -1
                                /\ loc'["user"].toggles = l.toggles
                  IN  /\ (outcome = "ok" /\ wkc = 0 /\ l.dropped = 0) => failed
                      /\ (outcome = "ok" /\ wkc = 0 /\ l.dropped > 0) =>
                            /\ pc'["user"] = "rr_read"
                            /\ loc'["user"].tries = l.tries
                      /\ (outcome = "ok" /\ wkc = 1) =>
                            /\ pc'["user"] = "mb_unlock"
                            /\ loc'["user"].result = 0
                      /\ outcome = "bad_wkc" => failed
      /\ (pc["user"] \in {"rr_read", "rr_write", "rr_poll"}
            /\ pc'["user"] = "rd") =>
           /\ loc'["user"].tries = loc["user"].tries + 1
           /\ loc'["user"].dropped = 0
           /\ mailbox_diagnostics_'.retries_ = mailbox_diagnostics_.retries_ + 1
      /\ (pc["user"] \in {"rr_read", "rr_write", "rr_poll"}
            /\ pc'["user"] = "mb_unlock") => loc'["user"].result = -1 ]_vars

\* the tenth attempt was refused after a drop, its repeat request was
\* acknowledged like the nine before it, and the call failed
C11_Witness ==
  /\ pc["user"] = "mb_unlock"
  /\ loc["user"].kind = "read"
  /\ loc["user"].tries = MAX_TRIES - 1
  /\ loc["user"].dropped > 0
  /\ loc["user"].result = -1
  /\ mailbox_diagnostics_.retries_ = MAX_TRIES
  /\ mailbox_diagnostics_.retry_errors_ = 0

\* C12: writeMailboxInternal sends the write frame at most WRITE_TRIES
\* times and fails when the last of them is lost too; a send that comes
\* back with working counter 0 fails the call when it was the only send
\* and is tolerated when an earlier send was lost; working counter 1 is
\* accepted, and a working counter above 1 or differing counters fail
C12_WriteWorkingCounter ==
  [][ pc["user"] = "wr" =>
        /\ loc["user"].sends < WRITE_TRIES
        /\ \A outcome \in Outcomes :
             wr_send("user", outcome) =>
               LET l == loc["user"]
                   wkc == DevWriteCommand(dev, CommandOf(l)).wkc
                   sent == l.sends + 1
                   lost == outcome \in {"lost_out", "lost_back"}
                   failed == /\ pc'["user"] = "mb_unlock"
                             /\ loc'["user"].result = -1
                   accepted == pc'["user"] \in {"wait_rd", "wait_wr"}
               IN  /\ loc'["user"].sends = sent
                   /\ (lost /\ sent = WRITE_TRIES) => failed
                   /\ (lost /\ sent < WRITE_TRIES) => pc'["user"] = "wr"
                   /\ (outcome = "ok" /\ wkc = 0 /\ sent = 1) => failed
                   /\ (outcome = "ok" /\ wkc = 0 /\ sent > 1) => accepted
                   /\ (outcome = "ok" /\ wkc = 1) => accepted
                   /\ outcome = "bad_wkc" => failed ]_vars

\* a write whose ten sends were all lost has failed
C12_Witness ==
  /\ pc["user"] = "mb_unlock"
  /\ loc["user"].kind = "write"
  /\ loc["user"].sends = WRITE_TRIES
  /\ loc["user"].faults = HistMax
  /\ loc["user"].result = -1

\* C13 as the specification states it: a readMailbox or writeMailbox whose
\* wait for the mailbox ran out of its time returns non-zero
C13_WaitTimeoutFails ==
  (Returned /\ loc["user"].wait_failed) => loc["user"].result # 0

(***************************************************************************)
(* Properties of the frame builders                                        *)
(***************************************************************************)
\* C14: computeChecksum over a whole built frame, trailing checksum byte
\* included, is 0: the header of a successful WG0XMbxHdr::build, the data
\* and checksum byte of a successful WG0XMbxCmd::build (data given or zero
\* filled), and the command buffer of packCommand
C14_BuiltFramesChecksumZero ==
  /\ (last.op = "WG0XMbxHdr::build" /\ last.ok) =>
        computeChecksum(last.hdr) = 0
  /\ (last.op = "WG0XMbxCmd::build" /\ last.ok) =>
        /\ computeChecksum(last.hdr) = 0
        /\ Len(last.data) = last.length + 1
        /\ computeChecksum(last.data) = 0
  /\ last.op = "packCommand" =>
        /\ Len(last.buffer) = command_size_
        /\ computeChecksum(last.buffer) = 0

\* a command built with caller data of the largest length, not all zero
C14_Witness ==
  /\ last.op = "WG0XMbxCmd::build" /\ last.ok /\ last.has_data
  /\ last.length = MaxLen
  /\ last.data[1] = 255
  /\ last.data[last.length + 1] # 0
  /\ computeChecksum(last.data) = 0

(***************************************************************************)
(* Properties of the time kept by unpackState                              *)
(***************************************************************************)
\* the low 32 bits of a signed number, as <<high half, low half>>
PairOf(n) == <<(n \div Pow2_16) % Pow2_16, n % Pow2_16>>

\* a duration and a number of microseconds below 2^31 added up
AddUsec(d, usec) ==
  LET u == (d.nsec \div 1000) + (usec % USEC_PER_SEC)
  IN  [sec |-> d.sec + (usec \div USEC_PER_SEC) + (u \div USEC_PER_SEC),
       nsec |-> (u % USEC_PER_SEC) * 1000 + (d.nsec % 1000)]

\* C15: timestampDiff(new, old) is the signed 32 bit value of (new - old)
\* mod 2^32, the same when 2^32 is added to new, and 2 for new = 1 and
\* old = 0xFFFFFFFF; sample_timestamp_ grows in every unpackState by the
\* microseconds the device's counter has gone on, over a rollover too
C15_TimestampDiffWraps ==
  [][ /\ last'.op = "timestampDiff" =>
           /\ PairOf(last'.diff) = TimestampSub(last'.new, last'.old)
           /\ last'.diff_wrapped = last'.diff
           /\ (last'.new = <<0, 1>> /\ last'.old = <<65535, 65535>>) =>
                 last'.diff = 2
      /\ (last'.op = "unpackState" /\ wg'.last_timestamp_ # wg.last_timestamp_) =>
           LET elapsed == TimestampSub(wg'.last_timestamp_, wg.last_timestamp_)
           IN  elapsed[1] < Pow2_16 \div 2 =>
                 wg'.sample_timestamp_ =
                   AddUsec(wg.sample_timestamp_,
                           elapsed[1] * Pow2_16 + elapsed[2]) ]_vars

\* the counter has rolled over from 0xFFFFFFFF to 1 and 2^32 + 1
\* microseconds have been counted
C15_Witness ==
  /\ last.op = "unpackState"
  /\ wg.last_timestamp_ = <<0, 1>>
  /\ wg.last_last_timestamp_ = <<65535, 65535>>
  /\ wg.sample_timestamp_ = [sec |-> 4294, nsec |-> 967297000]

(***************************************************************************)
(* Properties of the lifetime totals                                       *)
(***************************************************************************)
\* C16: update adds (new - old) mod 256 to the lifetime total of each of
\* the seven counters (9 for old = 250 and new = 3); no total ever goes
\* down, and a total grows by the events the device has counted when these
\* are fewer than 256 between two updates
C16_TotalsFollowCounters ==
  [][ last'.op = "update" =>
        \A counter \in CounterNames :
          LET old   == CountOf(wg0x_collect_diagnostics_, counter)
              new   == CountOf(wg0x_collect_diagnostics_', counter)
              added == TotalOf(wg0x_collect_diagnostics_', counter)
                         - TotalOf(wg0x_collect_diagnostics_, counter)
          IN  /\ added = (IF new >= old THEN new - old ELSE new + 256 - old)
              /\ added >= 0
              /\ (old = 250 /\ new = 3) => added = 9
              /\ added = (IF counter = last'.counter
                          THEN last'.events ELSE 0) ]_vars

\* the watchdog counter has gone from 250 to 3 and 259 events are counted
C16_Witness ==
  /\ last.op = "update" /\ last.counter = "watchdog_disable_count_"
  /\ last.old = 250 /\ last.new = 3
  /\ wg0x_collect_diagnostics_.watchdog_disable_total_ = 259
  /\ wg0x_collect_diagnostics_.safety_disable_total_ = 250

(***************************************************************************)
(* Properties of the actuator info CRCs                                    *)
(***************************************************************************)
\* C17: verifyCRC returns true on a record that generateCRC has just
\* worked on; and it returns true exactly when the stored crc32_264_ is the
\* CRC-32 of bytes 0..259 or the stored crc32_256_ is the CRC-32 of bytes
\* 0..251
C17_VerifyAfterGenerate ==
  last.op = "verifyCRC" =>
    /\ (last.crc = "generateCRC" /\ last.changed = NoChange) => last.result
    /\ last.result <=>
          \/ LoadField(last.info, 260) = checksum(last.info, 260)
          \/ LoadField(last.info, 252) = checksum(last.info, 252)

\* a record that is not all zero, with both CRCs, has been verified
C17_Witness ==
  /\ last.op = "verifyCRC" /\ last.crc = "generateCRC"
  /\ last.changed = NoChange
  /\ last.info[100] = 189
  /\ last.result

\* C18: after generateCRC, a change of any one of the first 260 bytes makes
\* verifyCRC return false, bytes 252..259 included
C18_AnyChangeDetected ==
  (/\ last.op = "verifyCRC" /\ last.crc = "generateCRC"
   /\ last.changed \in 0..259) => ~last.result

(***************************************************************************)
(* Properties of the mailbox round trip                                    *)
(***************************************************************************)
\* C19: with no frame lost and the device operational, writeMailbox of N
\* bytes to an address and then readMailbox of N bytes from it both return
\* 0 and the bytes read are the bytes written, for N from 1 to the limit
\* of a write
C19_WriteReadRoundTrip ==
  (/\ pc["user"] = "idle"
   /\ loc["user"].op = "mailbox" /\ loc["user"].kind = "read"
   /\ Len(loc["user"].keep.data) \in 1..MBX_DATA_SIZE) =>
     /\ loc["user"].keep.result = 0
     /\ loc["user"].result = 0
     /\ loc["user"].data = loc["user"].keep.data

\* a round trip of the longest write, its bytes not all the same
C19_Witness ==
  /\ pc["user"] = "idle"
  /\ loc["user"].op = "mailbox" /\ loc["user"].kind = "read"
  /\ Len(loc["user"].keep.data) = MBX_DATA_SIZE
  /\ loc["user"].keep.data[1] = 3
  /\ loc["user"].data = loc["user"].keep.data

C21_BufferZeroedBeforeRead ==
  (/\ last.op = "readEepromPage" /\ last.length <= MAX_EEPROM_PAGE_SIZE
   /\ last.page < NUM_EEPROM_PAGES /\ last.commanded) =>
     /\ \A i \in 1..Len(last.buffer) : last.buffer[i] = 0
     /\ last.ok =>
          \A i \in 1..last.length :
            i > dev.eeprom_page_size => last.data[i] = 0

\* C22: WG0XMbxHdr::build fails and leaves the header as it was when length
\* is above MBX_DATA_SIZE for a write or above MBX_SIZE - 1 for a read; for
\* every other length it succeeds and the length field holds length - 1 (in
\* the 12 bits of the field); a WG0XMbxCmd::build whose header build fails
\* leaves data_ as it was
C22_RejectedBuildLeavesObject ==
  last.op \in {"WG0XMbxHdr::build", "WG0XMbxCmd::build"} =>
    IF \/ last.type = "LOCAL_BUS_WRITE" /\ last.length > MBX_DATA_SIZE
       \/ last.type = "LOCAL_BUS_READ" /\ last.length > MBX_SIZE - 1
    THEN /\ ~last.ok
         /\ last.op = "WG0XMbxHdr::build" => last.hdr = last.before
         /\ last.op = "WG0XMbxCmd::build" =>
              /\ last.hdr = last.before.hdr
              /\ last.data = last.before.data
    ELSE /\ last.ok
         /\ HdrLengthField(last.hdr) = (last.length - 1) % 4096

\* a command build with caller data, rejected for its length, on an object
\* that held bytes other than zero
C22_Witness ==
  /\ last.op = "WG0XMbxCmd::build" /\ ~last.ok /\ last.has_data
  /\ last.type = "LOCAL_BUS_WRITE" /\ last.length = MBX_SIZE
  /\ last.before.hdr[1] = 255 /\ last.data = <<255, 255>>

\* C23 as the specification states it: a readMailbox that returns without
\* the requested data counts one read error, a writeMailbox whose write the
\* device did not take counts one write error, every other call leaves both
\* counts; the counts never go down
C23_ErrorCountsFollowOutcome ==
  [][/\ mailbox_diagnostics_'.read_errors_ >= mailbox_diagnostics_.read_errors_
     /\ mailbox_diagnostics_'.write_errors_ >= mailbox_diagnostics_.write_errors_
     /\ (pc["user"] = "mb_unlock" /\ pc'["user"] # "mb_unlock") =>
          LET l == loc["user"]
              m == mailbox_diagnostics_
              delivered == l.kind = "read" /\ Len(l.data) = Len(l.value)
              accepted == l.kind = "write" /\ l.result = 0
          IN  /\ mailbox_diagnostics_'.read_errors_ =
                   IF l.kind = "read" /\ ~delivered THEN m.read_errors_ + 1
                   ELSE m.read_errors_
              /\ mailbox_diagnostics_'.write_errors_ =
                   IF l.kind = "write" /\ ~accepted THEN m.write_errors_ + 1
                   ELSE m.write_errors_]_vars

C25_ClearReadMailbox ==
  LET l == loc["user"]
  IN  l.op = "mailbox" =>
        /\ pc["user"] = "clr" => l.tries < MAX_DROPS /\ ~l.clear.done
        /\ l.clear.done =>
             /\ IF ~l.clear.back
                THEN ~l.clear.rv /\ l.tries = MAX_DROPS - 1
                ELSE l.clear.rv <=> /\ l.clear.wkc[1] = l.clear.wkc[2]
                                    /\ l.clear.wkc[1] \in {0, 1}
             /\ IF l.clear.rv
                THEN pc["user"] = "wr" /\ l.sends = 0
                ELSE /\ pc["user"] \in {"mb_unlock", "idle"}
                     /\ l.result = -1 /\ l.sends = 0

\* a flush that found stale data in the mailbox (working counter 1) after the
\* transport lost the frame twice: the call is about to write its command
C25_Witness ==
  /\ pc["user"] = "wr"
  /\ loc["user"].kind = "read" /\ loc["user"].sends = 0
  /\ loc["user"].clear.back /\ loc["user"].clear.rv
  /\ loc["user"].clear.wkc = <<1, 1>>
  /\ loc["user"].faults >= 2

\* C26 as the specification states it: waitForSpiEepromReady reads the
\* command register no more than 10 times; it returns true at the first read
\* that finds busy clear, false at a read that fails, and false when busy is
\* still set at the 10th read
C26_SpiReadyWithinTenReads ==
  last.op = "waitForSpiEepromReady" =>
    LET clear == last.busy_for + 1
        fail  == IF last.fail_at = 0 THEN SPI_READY_TRIES + 1 ELSE last.fail_at
    IN  /\ last.r.reads <= SPI_READY_TRIES
        /\ last.r.rv <=> (clear <= SPI_READY_TRIES /\ clear < fail)
        /\ last.r.rv => last.r.reads = clear
        /\ (fail <= SPI_READY_TRIES /\ fail <= clear) =>
              (~last.r.rv /\ last.r.reads = fail)

\* C27: sendSpiEepromCmd waits for the state machine before it writes the
\* command and polls the register only after the write; it polls no more than
\* SPI_CMD_TRIES times, returns false at the first poll that reads back
\* another operation (busy clear or not), true only at a poll with the
\* operation sent and busy clear, and false when busy is not clear within
\* the polls
C27_SendSpiEepromCmd ==
  last.op = "sendSpiEepromCmd" =>
    LET Ev(at) == IF at = 0 THEN SPI_CMD_TRIES + 1 ELSE at
        clear == last.busy_for + 1
        fail  == Ev(last.fail_at)
        other == Ev(last.mismatch_at)
        r     == last.r
    IN  /\ ~last.ready.rv => (~r.rv /\ ~r.written /\ r.polls = 0)
        /\ (last.ready.rv /\ ~last.write_ok) =>
              (~r.rv /\ r.written /\ r.polls = 0)
        /\ (last.ready.rv /\ last.write_ok) =>
              /\ r.written
              /\ r.polls \in 1..SPI_CMD_TRIES
              /\ r.rv <=> /\ clear <= SPI_CMD_TRIES
                          /\ clear < fail /\ clear < other
              /\ r.rv => r.polls = clear
              /\ (other <= SPI_CMD_TRIES /\ other <= clear /\ other < fail) =>
                    (~r.rv /\ r.polls = other)

\* the second poll finds busy clear and reads back another operation
C27_Witness ==
  /\ last.op = "sendSpiEepromCmd" /\ last.ready.rv /\ last.write_ok
  /\ last.busy_for = 1 /\ last.mismatch_at = 2 /\ last.fail_at = 0
  /\ ~last.r.rv /\ last.r.polls = 2

\* C28: writeEepromPage makes its steps in the order wait_ready, buffer
\* write, SPI write command, EEPROM ready poll and ends at the first that
\* fails, returning false: after a failed buffer write no SPI command is sent
\* and the page stays as it was; the poll reads the status register no more
\* than EEPROM_READY_TRIES times; a length above 264 or a page of
\* NUM_EEPROM_PAGES or more fails before any step
C28_WriteStepsInOrder ==
  last.op = "writeEepromPage" =>
    LET order == <<"wait_ready", "buffer", "command", "eeprom_ready">>
        n == Len(last.steps)
    IN  /\ n <= 4 /\ last.steps = SubSeq(order, 1, n)
        /\ IF last.length > 264 \/ last.page >= NUM_EEPROM_PAGES
           THEN n = 0 /\ ~last.ok /\ last.image = <<>>
           ELSE /\ last.fail = "spi_ready" => (n = 1 /\ ~last.ok)
                /\ last.fail = "buffer" => (n = 2 /\ ~last.ok)
                /\ last.fail = "command" => (n = 3 /\ ~last.ok)
                /\ last.fail = "none" => n = 4
        /\ last.fail \in {"spi_ready", "buffer"} =>
              \A page \in EepromPages : dev.eeprom[page] = <<>>
        /\ last.status_reads <= EEPROM_READY_TRIES
        /\ n < 4 => last.status_reads = 0
        /\ last.ok => (n = 4 /\ last.status_reads >= 1)

\* the EEPROM is still busy at the last of the status reads, after the page
\* was programmed
C28_Witness ==
  /\ last.op = "writeEepromPage" /\ ~last.ok /\ last.fail = "none"
  /\ Len(last.steps) = 4 /\ last.status_reads = EEPROM_READY_TRIES
  /\ dev.eeprom[0] # <<>>

\* the seven lifetime totals, and the record kept for the next update
TotalsOf(dg) == [counter \in CounterNames |-> TotalOf(dg, counter)]
SnapshotOf(dg) == [counter \in CounterNames |-> CountOf(dg, counter)]

\* what the poll has read into its locals s and di
ReadOf(l) ==
  [counter \in CounterNames |->
     IF counter = "safety_disable_count_" THEN l.s ELSE l.di]

\* collectDiagnostics returns, from its update or from the failed lock
PollEnds ==
  /\ pc["collect"] \in {"cd_end", "cd_locked"}
  /\ pc'["collect"] = "idle"

\* C29 as the specification states it: at the end of every poll, failed or
\* not, the record kept equals what that poll has read (a local that holds
\* another count than 0 has been read)
C29_SnapshotIsLastRead ==
  [][PollEnds =>
       LET l == loc["collect"]
       IN  \A counter \in CounterNames :
             ReadOf(l)[counter] # 0 =>
               SnapshotOf(wg0x_collect_diagnostics_')[counter] =
                 ReadOf(l)[counter]]_vars

\* C29: at the end of every poll that succeeded the record kept equals what
\* that poll has read
C29_SnapshotIsLastGoodRead ==
  [][(PollEnds /\ pc["collect"] = "cd_locked" /\ loc["collect"].success) =>
       SnapshotOf(wg0x_collect_diagnostics_') = ReadOf(loc["collect"])]_vars

\* a poll has kept a safety disable count that went round (250 + 9) while
\* the other counters were read as 250
C29_Witness ==
  /\ pc["collect"] = "idle"
  /\ wg0x_collect_diagnostics_.valid_
  /\ wg0x_collect_diagnostics_.safety_disable_status_.safety_disable_count_ = 3
  /\ wg0x_collect_diagnostics_.diagnostics_info_.undervoltage_count_ = 250
  /\ dev.bus["SAFETY_STATUS"] = <<3>>

\* C30: a poll that fails (no device at the probe, a mailbox read that
\* fails, or the lock not had) leaves the totals and the record kept and
\* sets valid_ to false; a poll that succeeds sets valid_ and adds to every
\* total the difference mod 256 between what it read and the record kept by
\* the successful poll before
C30_FailedPollKeepsTotals ==
  [][PollEnds =>
       LET l   == loc["collect"]
           dg  == wg0x_collect_diagnostics_
           new == wg0x_collect_diagnostics_'
       IN  IF pc["collect"] = "cd_locked" /\ l.success
           THEN /\ new.valid_
                /\ \A counter \in CounterNames :
                     TotalOf(new, counter) =
                       TotalOf(dg, counter)
                         + ((ReadOf(l)[counter] - CountOf(dg, counter)) % 256)
           ELSE /\ ~new.valid_
                /\ TotalsOf(new) = TotalsOf(dg)
                /\ SnapshotOf(new) = SnapshotOf(dg)]_vars

\* the second mailbox read of a poll has failed after the device counted on:
\* the totals are those of the poll before and valid_ is false
C30_Witness ==
  /\ pc["collect"] = "idle"
  /\ ~wg0x_collect_diagnostics_.valid_
  /\ wg0x_collect_diagnostics_.safety_disable_total_ = 250
  /\ wg0x_collect_diagnostics_.safety_disable_status_.safety_disable_count_ = 250
  /\ dev.bus["SAFETY_STATUS"] = <<3>>
  /\ mailbox_diagnostics_.read_errors_ = 1

(***************************************************************************)
(* Properties of the timestamp checks and of the FPGA reset flag           *)
(***************************************************************************)
\* a uint32_t as a number
Val32(t) == t[1] * Pow2_16 + t[2]

\* the new timestamp is more than TIMESTAMP_JUMP_USEC ahead of the old one,
\* or behind it by more than that
FarFrom(new, old) ==
  \/ Val32(new) > Val32(old) + TIMESTAMP_JUMP_USEC
  \/ Val32(new) + TIMESTAMP_JUMP_USEC < Val32(old)

\* unpackState of a frame with nothing wrong but, maybe, its timestamp
PlainUnpackStep ==
  \E timestamp \in Timestamps : unpackState(timestamp, MODE_OFF, "ok")

\* C31: a frame whose only anomaly is a timestamp more than
\* TIMESTAMP_JUMP_USEC ahead of or behind the last one, verified while
\* fpga_internal_reset_detected_ is false, returns true, leaves has_error_ as
\* it was and sets timestamp_jump_detected_; the flag stays set until
\* packCommand with reset = true, which clears it
C31_JumpOnlyFlags ==
  [][ /\ (/\ last'.op = "unpackState"
          /\ FarFrom(wg'.last_timestamp_, wg.last_timestamp_)
          /\ ~TooManyDrops(wg'.consecutive_drops_)
          /\ ~wg.fpga_internal_reset_detected_
          /\ PlainUnpackStep) =>
           /\ last'.rv
           /\ wg'.has_error_ = wg.has_error_
           /\ wg'.timestamp_jump_detected_
      /\ (wg.timestamp_jump_detected_ /\ ~wg'.timestamp_jump_detected_)
           => PackResetStep
      /\ (wg.timestamp_jump_detected_ /\ PackResetStep)
           => ~wg'.timestamp_jump_detected_ ]_vars

\* a frame far behind the last one was verified (true) with no error
\* latched, and it has set the flag
C31_Witness ==
  /\ last.op = "unpackState" /\ last.rv /\ last.jump /\ ~last.pre_error
  /\ wg.timestamp_jump_detected_ /\ ~wg.has_error_
  /\ ~wg.fpga_internal_reset_detected_
  /\ Val32(wg.last_last_timestamp_) = 2 * TIMESTAMP_JUMP_USEC
  /\ Val32(wg.last_timestamp_) = 0

\* unpackState of a frame that reports MODE_SAFETY_LOCKOUT, with nothing
\* wrong in the attached models
LockoutOnlyStep ==
  \E timestamp \in Timestamps :
    unpackState(timestamp, {"SAFETY_LOCKOUT"}, "ok")

\* C32: while resetting_ is true a frame that reports MODE_SAFETY_LOCKOUT and
\* has nothing else wrong returns true and leaves has_error_ as it was; with
\* resetting_ false a frame that reports it always returns false and latches
\* has_error_, so a device that stays in lockout is latched again by the
\* first frame verified after a packCommand with reset = false
C32_LockoutPassesWhileResetting ==
  [][ /\ (/\ last'.op = "unpackState" /\ last'.lockout
          /\ wg.resetting_
          /\ ~TooManyDrops(wg'.consecutive_drops_)
          /\ ~wg.fpga_internal_reset_detected_
          /\ LockoutOnlyStep) =>
           /\ last'.rv /\ wg'.in_lockout_
           /\ wg'.has_error_ = wg.has_error_
      /\ (/\ last'.op = "unpackState" /\ last'.lockout
          /\ ~wg.resetting_) =>
           /\ ~last'.rv /\ wg'.has_error_ ]_vars

\* a frame in lockout was verified (true) during a reset request and left
\* no error latched
C32_Witness ==
  /\ last.op = "unpackState" /\ last.lockout /\ last.rv
  /\ wg.resetting_ /\ wg.in_lockout_
  /\ ~wg.has_error_ /\ ~halted_

\* C36: consecutive_drops_ <= max_consecutive_drops_ <= drops_ in every
\* state; a frame counts as a drop (all three counters follow) exactly when
\* its timestamp is one of the two seen before it, so frames that alternate
\* between two timestamps are consecutive drops; a frame with another
\* timestamp takes consecutive_drops_ to 0; drops_ and
\* max_consecutive_drops_ never go down, packCommand with reset = true
\* included
C36_DropCounters ==
  /\ [](/\ wg.consecutive_drops_ <= wg.max_consecutive_drops_
        /\ wg.max_consecutive_drops_ <= wg.drops_)
  /\ [][ /\ last'.op = "unpackState" =>
             IF wg'.last_timestamp_ \in
                  {wg.last_timestamp_, wg.last_last_timestamp_}
             THEN /\ wg'.drops_ = wg.drops_ + 1
                  /\ wg'.consecutive_drops_ = wg.consecutive_drops_ + 1
                  /\ wg'.max_consecutive_drops_ =
                       Max(wg.max_consecutive_drops_, wg'.consecutive_drops_)
             ELSE /\ wg'.drops_ = wg.drops_
                  /\ wg'.consecutive_drops_ = 0
                  /\ wg'.max_consecutive_drops_ = wg.max_consecutive_drops_
         /\ wg'.drops_ >= wg.drops_
         /\ wg'.max_consecutive_drops_ >= wg.max_consecutive_drops_
         /\ (last'.op = "packCommand" /\ last'.reset) =>
              /\ wg'.drops_ = wg.drops_
              /\ wg'.consecutive_drops_ = wg.consecutive_drops_
              /\ wg'.max_consecutive_drops_ = wg.max_consecutive_drops_ ]_vars

\* frames that alternated between two timestamps were counted as two drops
\* in a row, and a reset request has left the counters alone
C36_Witness ==
  /\ last.op = "packCommand" /\ last.reset
  /\ wg.last_timestamp_ # wg.last_last_timestamp_
  /\ wg.consecutive_drops_ = 2
  /\ wg.max_consecutive_drops_ = 2
  /\ wg.drops_ = 2

\* no frame has been verified since construction
FirstCall(w) ==
  w.drops_ = 0 /\ w.last_timestamp_ = w.last_last_timestamp_

\* C38: the first verifyState after construction compares the frame with
\* the timestamps the constructor set: a frame with timestamp 0 is counted as
\* a drop and a frame with a timestamp above TIMESTAMP_JUMP_USEC sets
\* timestamp_jump_detected_; a frame with nothing else wrong returns true in
\* both cases and latches no error
C38_FirstFrameAgainstZero ==
  [][ (FirstCall(wg) /\ last'.op = "unpackState") =>
        LET timestamp == Val32(wg'.last_timestamp_)
        IN  /\ timestamp = 0 =>
                 /\ wg'.drops_ = 1 /\ wg'.consecutive_drops_ = 1
                 /\ wg'.max_consecutive_drops_ = 1
                 /\ ~wg'.timestamp_jump_detected_
            /\ timestamp > TIMESTAMP_JUMP_USEC =>
                 /\ wg'.timestamp_jump_detected_ /\ wg'.drops_ = 0
            /\ PlainUnpackStep => (last'.rv /\ ~wg'.has_error_) ]_vars

\* the only frame verified so far had timestamp 0: it is counted as a drop
\* and was verified (true)
C38_Witness ==
  /\ last.op = "unpackState" /\ last.drop /\ last.rv
  /\ wg.drops_ = 1 /\ wg.consecutive_drops_ = 1
  /\ Val32(wg.last_timestamp_) = 0 /\ Val32(wg.last_last_timestamp_) = 0
  /\ ~wg.has_error_

\* C37: fpga_internal_reset_detected_ is set by publishGeneralDiagnostics
\* alone, and only with timestamp_jump_detected_ set and SAFETY_OPERATIONAL
\* in the held safety status of the publisher's copy; no step clears it,
\* packCommand with reset = true included; once it is set every verifyState
\* returns false and latches has_error_
C37_FpgaResetIsForGood ==
  [][ /\ (~wg.fpga_internal_reset_detected_
            /\ wg'.fpga_internal_reset_detected_) =>
           /\ pg_rest
           /\ wg.timestamp_jump_detected_
           /\ "OPERATIONAL" \in wg0x_publish_diagnostics_
                   .safety_disable_status_.safety_disable_status_hold_
      /\ wg.fpga_internal_reset_detected_ => wg'.fpga_internal_reset_detected_
      /\ (wg.fpga_internal_reset_detected_ /\ PlainUnpackStep) =>
           /\ ~last'.rv /\ wg'.has_error_ ]_vars

\* after the flag was set a reset request cleared the error latch, and the
\* next frame, with nothing wrong in it, has set the latch again
C37_Witness ==
  /\ last.op = "unpackState" /\ ~last.rv /\ last.why = "fpga_reset"
  /\ ~last.pre_error /\ ~last.jump /\ ~last.drop
  /\ wg.fpga_internal_reset_detected_ /\ wg.has_error_
  /\ ~wg.timestamp_jump_detected_

(***************************************************************************)
(* Properties of WG0XMbxHdr::verifyChecksum                                *)
(***************************************************************************)
\* C40: WG0XMbxHdr::verifyChecksum returns true exactly when the checksum
\* over the whole header is not zero: it returns false for every header
\* that WG0XMbxHdr::build has built, and true for one with a bit turned over
C40_VerifyChecksumInverted ==
  last.op = "WG0XMbxHdr::verifyChecksum" =>
    /\ last.rv <=> ChecksumFrom(CHECKSUM_SEED, last.hdr, 1, Len(last.hdr)) # 0
    /\ last.rv <=> last.hdr[6] # HdrChecksum(SubSeq(last.hdr, 1, 5))
    /\ last.built => ~last.rv
    /\ ~last.built => last.rv

\* a header built over a stack full of ones, as built, was refused
C40_Witness ==
  /\ last.op = "WG0XMbxHdr::verifyChecksum"
  /\ last.built /\ ~last.rv
  /\ HdrPad(last.hdr) = 7

(***************************************************************************)
(* Properties of the calibration offset                                    *)
(***************************************************************************)
\* the offset z has reached the collector's record and the device
Settled(z) ==
  /\ wg.cached_zero_offset_ = z
  /\ wg0x_collect_diagnostics_.zero_offset_ = z
  /\ wg0x_collect_diagnostics_.cached_zero_offset_ = z
  /\ dev.bus["APP_RAM"] = <<z>>

\* C33 as the specification states it: when the controller's offset differs
\* from cached_zero_offset_ and is not changed again, then, both contexts
\* being scheduled and the mailbox working in the end, cached_zero_offset_,
\* the two fields of the collector's record and the application RAM of the
\* device all come to hold it
C33_OffsetReachesDevice ==
  \A z \in 0..MaxOffset :
    (zero_offset = z /\ wg.cached_zero_offset_ # z)
       ~> (zero_offset # z \/ Settled(z))

\* the collector is in its call of writeAppRam or just behind it
WritingAppRam ==
  \/ pc["collect"] \in {"cd_wr", "cd_cache"}
  \/ /\ pc["collect"] \in {"mb_lock", "mb_in", "mb_unlock"}
     /\ loc["collect"].kind = "write"

\* the controller's offset 0 has been handed over, nothing is left to
\* write, and the device holds another offset
Orphaned ==
  /\ zero_offset = 0
  /\ wg.cached_zero_offset_ = 0
  /\ wg0x_collect_diagnostics_.zero_offset_ = 0
  /\ wg0x_collect_diagnostics_.cached_zero_offset_ = 0
  /\ dev.bus["APP_RAM"] # <<0>>
  /\ ~WritingAppRam

\* C39: initialize gives the offset Z it loaded to cached_zero_offset_ (and
\* to the actuator state) only and leaves zero_offset_ and
\* cached_zero_offset_ of the collector's record at 0; the collector starts
\* writeAppRam only when these two fields differ; so when the controller
\* changes the loaded offset Z # 0 to 0, the hand-off takes place, no write
\* follows and the device keeps Z for as long as the controller leaves the
\* offset at 0
C39_LoadedOffsetNotZeroed ==
  /\ [][(JustConstructed /\ wg'.calibration_status_ = "SAVED_CALIBRATION")
          => /\ wg'.cached_zero_offset_ = dev.bus["APP_RAM"][1]
             /\ zero_offset' = dev.bus["APP_RAM"][1]
             /\ wg0x_collect_diagnostics_'.zero_offset_ = 0
             /\ wg0x_collect_diagnostics_'.cached_zero_offset_ = 0]_vars
  /\ [][(~WritingAppRam /\ WritingAppRam')
          => /\ pc["collect"] = "cd_cmp"
             /\ wg0x_collect_diagnostics_.zero_offset_
                  # wg0x_collect_diagnostics_.cached_zero_offset_]_vars
  /\ [][(/\ wg.calibration_status_ = "SAVED_CALIBRATION"
         /\ wg.cached_zero_offset_ # 0
         /\ zero_offset = 0
         /\ wg'.calibration_status_ = "CONTROLLER_CALIBRATION")
          => /\ Orphaned'
             /\ dev'.bus["APP_RAM"] = <<wg.cached_zero_offset_>>]_vars
  /\ [][(Orphaned /\ zero_offset' = 0)
          => (Orphaned' /\ dev'.bus["APP_RAM"] = dev.bus["APP_RAM"])]_vars

\* the loaded offset 1 was changed to 0 and handed over, the collector has
\* finished a poll since, and the device still holds 1
C39_Witness ==
  /\ Orphaned
  /\ wg.calibration_status_ = "CONTROLLER_CALIBRATION"
  /\ dev.bus["APP_RAM"] = <<1>>
  /\ wg0x_collect_diagnostics_.valid_
  /\ pc["rt"] = "idle"
  /\ pc["collect"] = "idle"

(***************************************************************************)
(* Properties of the end of a mailbox call                                 *)
(***************************************************************************)
InCall(t) == pc[t] # "idle" /\ loc[t].op = "mailbox"

\* C34: every mailbox transaction ends whatever the transport and the
\* device do: clearReadMailbox sends at most MAX_DROPS = 15 times,
\* writeMailboxInternal at most 10 times, readMailboxInternal makes at most
\* MAX_TRIES = 10 attempts of at most MAX_DROPPED = 10 sends with at most
\* one repeat request each, a wait ends with its limit; so readMailbox and
\* writeMailbox return and the lock is free again
C34_MailboxCallEnds ==
  /\ [](InCall("user") =>
          LET l == loc["user"]
          IN  /\ pc["user"] = "clr" => l.tries < MAX_DROPS
              /\ pc["user"] = "wr" => l.sends < WRITE_TRIES
              /\ l.sends <= WRITE_TRIES
              /\ pc["user"] = "rd" =>
                   (l.tries < MAX_TRIES /\ l.dropped < MAX_DROPPED)
              /\ l.tries < MAX_DROPS /\ l.dropped <= MAX_DROPPED
              /\ pc["user"] \in {"rd", "rr_read", "rr_write", "rr_poll"} =>
                   /\ l.tries < MAX_TRIES
                   /\ mailbox_diagnostics_.retries_ = l.tries)
  /\ [][(pc["user"] = "clr" /\ pc'["user"] = "clr" /\ loc' # loc)
          => loc'["user"].tries = loc["user"].tries + 1]_vars
  /\ [][(pc["user"] = "wr" /\ loc' # loc)
          => loc'["user"].sends = loc["user"].sends + 1]_vars
  /\ [][(pc["user"] = "rd" /\ pc'["user"] \in {"rd", "rr_read"} /\ loc' # loc)
          => \/ loc'["user"].dropped = loc["user"].dropped + 1
             \/ pc'["user"] = "rr_read" /\ loc["user"].dropped > 0]_vars
  /\ [][(pc["user"] \in {"rr_read", "rr_write", "rr_poll"}
           /\ pc'["user"] \notin {"rr_read", "rr_write", "rr_poll"})
          => /\ mailbox_diagnostics_'.retries_
                  = mailbox_diagnostics_.retries_ + 1
             /\ pc'["user"] = "rd" =>
                  /\ loc'["user"].tries = loc["user"].tries + 1
                  /\ loc'["user"].dropped = 0]_vars
  /\ (pc["user"] # "idle")
       ~> (pc["user"] = "idle" /\ mailbox_lock_ = NoOwner)

\* a read has come back to its caller after the last attempt of
\* readMailboxInternal was used up by repeat requests: MAX_TRIES of them
C34_Witness ==
  /\ pc["user"] = "idle"
  /\ loc["user"].op = "mailbox"
  /\ loc["user"].kind = "read"
  /\ loc["user"].result = -1
  /\ loc["user"].tries = MAX_TRIES - 1
  /\ mailbox_diagnostics_.retries_ = MAX_TRIES
  /\ mailbox_lock_ = NoOwner

(***************************************************************************)
(* Properties of the EEPROM operations of two threads                      *)
(***************************************************************************)
\* thread t is inside readMailbox_ / writeMailbox_ or about to unlock
InsideCall(t) == pc[t] \in {"mb_in", "mb_unlock"}

\* thread t is at the write of the command of its page write, its data
\* being in the buffer already
BeforeCommand(t) ==
  /\ pc[t] \in {"mb_lock", "mb_in"}
  /\ loc[t].keep.op = "writeEepromPage"
  /\ loc[t].keep.step \in {3, 4}

\* C35: the mailbox lock is held for one readMailbox or writeMailbox call
\* only: a thread owns it exactly while it is inside a call, and when a call
\* of an EEPROM operation has returned the lock is free before the next
\* call of the operation asks for it; so the buffer a page write command
\* meets is the buffer as the last write of any thread left it, and the
\* page takes that
C35_LockPerMailboxCall ==
  /\ [](\A t \in EeThreads : (mailbox_lock_ = t) <=> InsideCall(t))
  /\ [][\A t \in EeThreads :
          (pc[t] = "mb_unlock" /\ pc'[t] # "mb_unlock")
            => /\ mailbox_lock_' = NoOwner
               /\ pc'[t] \in {"mb_lock", "idle"}
               /\ pc'[t] = "mb_lock" =>
                    /\ loc'[t].keep.op = "writeEepromPage"
                    /\ loc'[t].keep.page = loc[t].keep.page]_vars
  /\ [][dev'.eeprom # dev.eeprom
          => \E t \in EeThreads :
               /\ pc[t] = "mb_in" /\ loc[t].keep.step = 4
               /\ dev'.eeprom[loc[t].keep.page]
                    = ReadBytes(dev.bus["SPI_BUFFER"], dev.eeprom_page_size)]_vars

\* writeEepromPage of "user" with data 1 has returned true and the page
\* holds the data 2 of "collect", whose buffer write came between the buffer
\* write and the command of "user" and whose own command is still to come
C35_Witness ==
  /\ pc["user"] = "idle"
  /\ loc["user"].op = "writeEepromPage"
  /\ loc["user"].ok
  /\ dev.eeprom[0] # <<>>
  /\ dev.eeprom[0][1] = 2
  /\ BeforeCommand("collect")
  /\ mailbox_lock_ = NoOwner
====
